---------------------------- MODULE Spec2Model ----------------------------
(***************************************************************************)
(* Angle-correction and polygon-metrics engine (AngleExtractor and         *)
(* AreaCalculator).                                                        *)
(*                                                                         *)
(* Numbers.  Python floats are modelled as fixed-point integers:           *)
(*   - radians, cosines and correction factors in millionths (One = 1.0);  *)
(*   - pitch and roll in whole degrees;                                    *)
(*   - pixel sizes in fortieths of a metre (0.1 m = 4, 0.075 m = 3);       *)
(*   - pixel areas in half square pixels (integer vertices give multiples  *)
(*     of one half), so areas in square metres are in units of 1/3200 m2.  *)
(* Every intermediate product stays below 2^31.                            *)
(* Optional values (Python None) are sequences of length at most one.      *)
(***************************************************************************)
EXTENDS Integers, Sequences, FiniteSets, TLC

VARIABLES op, pc, image, angle_data, polygon_points, pixel_size_x,
          pixel_size_y, area_result, polygons_list, results, returned,
          args, files, image_data, threads, frames, shared

vars == <<op, pc, image, angle_data, polygon_points, pixel_size_x,
          pixel_size_y, area_result, polygons_list, results, returned,
          args, files, image_data, threads, frames, shared>>

\* The state of the image service and of the concurrent callers.
service_vars == <<args, files, image_data, threads, frames, shared>>

(***************************************************************************)
(* Bounds of the model.                                                    *)
(***************************************************************************)
MaxAngle == 180

Angles == (-MaxAngle)..MaxAngle

(***************************************************************************)
(* Optional values.                                                        *)
(***************************************************************************)
None == << >>

Some(v) == <<v>>

IsNone(o) == Len(o) = 0

Value(o) == o[1]

(***************************************************************************)
(* Fixed-point arithmetic.                                                 *)
(***************************************************************************)
One == 10^6

Limb == 10^3

Abs(x) == IF x < 0 THEN -x ELSE x

Sgn(x) == IF x < 0 THEN -1 ELSE 1

Min(a, b) == IF a < b THEN a ELSE b

Max(a, b) == IF a > b THEN a ELSE b

\* a * b for a fixed-point b: (a * b) / One, by limbs of 1000.
MulFix(a, b) ==
    LET ah == Abs(a) \div Limb
        al == Abs(a) % Limb
        bh == Abs(b) \div Limb
        bl == Abs(b) % Limb
    IN  (Sgn(a) * Sgn(b)) *
        (ah * bh + (ah * bl + al * bh) \div Limb + (al * bl) \div One)

\* The largest magnitude a quotient is allowed to take: quotients beyond
\* 2000.0 saturate (every use clamps or compares far below it).
Huge == 2 * 10^9

\* a / b as a fixed-point number: (a * One) / b by long division, b # 0.
DivFix(a, b) ==
    LET n  == Abs(a)
        d  == Abs(b)
        q0 == n \div d
        r0 == n % d
        d1 == (r0 * Limb) \div d
        r1 == (r0 * Limb) % d
        d2 == (r1 * Limb) \div d
    IN  IF q0 >= 2000 THEN (Sgn(a) * Sgn(b)) * Huge
        ELSE (Sgn(a) * Sgn(b)) * (q0 * One + d1 * Limb + d2)

RECURSIVE FloorSqrt(_, _, _)
FloorSqrt(n, lo, hi) ==
    IF lo = hi THEN lo
    ELSE LET mid == (lo + hi + 1) \div 2
         IN  IF mid * mid <= n THEN FloorSqrt(n, mid, hi)
             ELSE FloorSqrt(n, lo, mid - 1)

\* One more decimal digit of a square root: sr = <<root so far, remainder>>.
SqrtDigit(sr) ==
    LET s == sr[1]
        r == sr[2] * 100
        d == CHOOSE k \in 0..9 :
                 /\ (20 * s + k) * k <= r
                 /\ (k = 9 \/ (20 * s + k + 1) * (k + 1) > r)
    IN  <<10 * s + d, r - (20 * s + d) * d>>

\* math.sqrt of a non-negative fixed-point number.
Sqrt(v) ==
    LET s0 == FloorSqrt(v, 0, 46340)
    IN  SqrtDigit(SqrtDigit(SqrtDigit(<<s0, v - s0 * s0>>)))[1]

Pi == 3141593

HalfPi == 1570796

\* math.radians of whole degrees.
Radians(deg) == Sgn(deg) * ((Abs(deg) * Pi) \div 180)

RECURSIVE CosSeries(_, _, _, _)
CosSeries(t, x2, k, acc) ==
    IF k > 7 THEN acc
    ELSE LET t2 == MulFix(t, x2) \div ((2 * k - 1) * (2 * k))
         IN  CosSeries(t2, x2, k + 1, IF k % 2 = 1 THEN acc - t2 ELSE acc + t2)

RECURSIVE SinSeries(_, _, _, _)
SinSeries(t, y2, k, acc) ==
    IF k > 7 THEN acc
    ELSE LET t2 == MulFix(t, y2) \div ((2 * k) * (2 * k + 1))
         IN  SinSeries(t2, y2, k + 1, IF k % 2 = 1 THEN acc - t2 ELSE acc + t2)

Sin(y) == Sgn(y) * SinSeries(Abs(y), MulFix(y, y), 1, Abs(y))

\* math.cos: reduction to [0, pi], then the series around 0, pi/2 or pi.
Cos(x) ==
    LET m == Abs(x) % (2 * Pi)
        r == IF m > Pi THEN 2 * Pi - m ELSE m
    IN  IF r <= HalfPi \div 2 THEN CosSeries(One, MulFix(r, r), 1, One)
        ELSE IF r <= Pi - HalfPi \div 2 THEN Sin(HalfPi - r)
        ELSE -CosSeries(One, MulFix(Pi - r, Pi - r), 1, One)

\* 1.0 / c.  math.cos returns no exact zero for any double (pi/2 is not
\* representable): at the doubles nearest a right angle it returns a
\* positive value of about 6e-17, whose reciprocal is of the order of 1e16.
\* A cosine below the resolution of the model is that case.
Reciprocal(c) == IF c = 0 THEN Huge ELSE DivFix(One, c)

(***************************************************************************)
(* AngleExtractor: the correction model.                                   *)
(***************************************************************************)
angle_tolerance == 5

_calculate_correction_factor_unclamped(pitch_angle, roll_angle) ==
    LET pitch_rad == Radians(Abs(pitch_angle))
        roll_rad  == Radians(Abs(roll_angle))
    IN  IF Abs(pitch_angle) > 85
        THEN Reciprocal(Cos(roll_rad))
        ELSE Reciprocal(Cos(Sqrt(MulFix(pitch_rad, pitch_rad)
                                 + MulFix(roll_rad, roll_rad))))

_calculate_correction_factor_signed_pitch(pitch_angle, roll_angle) ==
    LET pitch_rad == Radians(Abs(pitch_angle))
        roll_rad  == Radians(Abs(roll_angle))
        correction_factor ==
            IF pitch_angle > 85
            THEN Reciprocal(Cos(roll_rad))
            ELSE Reciprocal(Cos(Sqrt(MulFix(pitch_rad, pitch_rad)
                                     + MulFix(roll_rad, roll_rad))))
    IN  Min(Max(correction_factor, One), 3 * One)

_calculate_correction_factor(pitch_angle, roll_angle) ==
    LET pitch_rad == Radians(Abs(pitch_angle))
        roll_rad  == Radians(Abs(roll_angle))
        correction_factor ==
            IF Abs(pitch_angle) > 85
            THEN Reciprocal(Cos(roll_rad))
            ELSE LET effective_angle == Sqrt(MulFix(pitch_rad, pitch_rad)
                                             + MulFix(roll_rad, roll_rad))
                 IN  Reciprocal(Cos(effective_angle))
    IN  Min(Max(correction_factor, One), 3 * One)

_is_perpendicular_strict(pitch_angle, roll_angle) ==
    /\ Abs(Abs(pitch_angle) - 90) < angle_tolerance
    /\ Abs(roll_angle) < angle_tolerance

_is_perpendicular(pitch_angle, roll_angle) ==
    LET perpendicular_pitch == Abs(Abs(pitch_angle) - 90) <= angle_tolerance
        minimal_roll        == Abs(roll_angle) <= angle_tolerance
    IN  perpendicular_pitch /\ minimal_roll

(***************************************************************************)
(* AngleExtractor.extract_angles_from_image, from the angles one of the    *)
(* extraction methods resolved (result.update(angles) and what follows).   *)
(***************************************************************************)
extract_result_stale(angles) ==
    [has_angle_data    |-> angles.has_angle_data,
     is_perpendicular  |-> TRUE,
     pitch_angle       |-> angles.pitch_angle,
     roll_angle        |-> angles.roll_angle,
     correction_factor |-> One,
     image_type        |-> angles.image_type,
     camera_model      |-> angles.camera_model,
     angle_source      |-> angles.angle_source]

extract_result(angles) ==
    LET result == [has_angle_data    |-> angles.has_angle_data,
                   is_perpendicular  |-> TRUE,
                   pitch_angle       |-> angles.pitch_angle,
                   roll_angle        |-> angles.roll_angle,
                   correction_factor |-> One,
                   image_type        |-> angles.image_type,
                   camera_model      |-> angles.camera_model,
                   angle_source      |-> angles.angle_source]
    IN  IF result.has_angle_data
        THEN [result EXCEPT
                 !.correction_factor =
                     _calculate_correction_factor(result.pitch_angle,
                                                  result.roll_angle),
                 !.is_perpendicular =
                     _is_perpendicular(result.pitch_angle, result.roll_angle)]
        ELSE result

\* What _extract_from_exif returns once angle fields were found.
exif_angles(pitch, roll) ==
    [has_angle_data |-> TRUE,
     pitch_angle    |-> pitch,
     roll_angle     |-> roll,
     camera_model   |-> Some(""),
     image_type     |-> "drone",
     angle_source   |-> Some("exif")]

(***************************************************************************)
(* AreaCalculator.                                                         *)
(***************************************************************************)
\* dict.get(key, default)
Get(d, key, default) == IF key \in DOMAIN d THEN d[key] ELSE default

\* Truth value of an optional dict: None and the empty dict are false.
Truthy(o) == ~IsNone(o) /\ DOMAIN Value(o) # {}

\* cv2.contourArea's sum over the closed ring, before the halving: the sum
\* of prev.x * cur.y - prev.y * cur.x, prev starting at the last point.
RECURSIVE ContourSum(_, _)
ContourSum(points, i) ==
    IF i > Len(points) THEN 0
    ELSE LET prev == points[IF i = 1 THEN Len(points) ELSE i - 1]
             cur  == points[i]
         IN  prev[1] * cur[2] - prev[2] * cur[1] + ContourSum(points, i + 1)

\* In half square pixels.
calculate_polygon_area_pixels_signed(points) ==
    IF Len(points) < 3 THEN 0 ELSE ContourSum(points, 1)

calculate_polygon_area_pixels(points) ==
    IF Len(points) < 3 THEN 0 ELSE Abs(ContourSum(points, 1))

DefaultPixelSize == 4

pixels_to_square_meters_square(pixel_area, size_x, size_y) ==
    LET sx == IF IsNone(size_x) THEN DefaultPixelSize ELSE Value(size_x)
    IN  pixel_area * (sx * sx)

pixels_to_square_meters(pixel_area, size_x, size_y) ==
    LET sx == IF IsNone(size_x) THEN DefaultPixelSize ELSE Value(size_x)
        sy == IF IsNone(size_y) THEN sx ELSE Value(size_y)
        area_conversion_factor == sx * sy
    IN  pixel_area * area_conversion_factor

apply_angle_correction(apparent_area, correction_factor) ==
    MulFix(apparent_area, correction_factor)

area_result_dict_ratio_zero(pixel_area, apparent, corrected, factor, applied) ==
    [pixel_area              |-> pixel_area,
     apparent_area_m2        |-> apparent,
     corrected_area_m2       |-> corrected,
     correction_factor       |-> factor,
     correction_applied      |-> applied,
     area_difference_m2      |-> corrected - apparent,
     area_difference_percent |->
         ((IF apparent > 0 THEN DivFix(corrected, apparent) ELSE 0) - One) * 100]

\* The returned dict, from the locals of calculate_corrected_area.
area_result_dict(pixel_area, apparent, corrected, factor, applied) ==
    [pixel_area              |-> pixel_area,
     apparent_area_m2        |-> apparent,
     corrected_area_m2       |-> corrected,
     correction_factor       |-> factor,
     correction_applied      |-> applied,
     area_difference_m2      |-> corrected - apparent,
     area_difference_percent |->
         IF apparent > 0 THEN (DivFix(corrected, apparent) - One) * 100
         ELSE 0]

calculate_corrected_area_gated(points, size_x, size_y, reading) ==
    LET sx == IF IsNone(size_x) THEN Some(DefaultPixelSize) ELSE size_x
        sy == IF IsNone(size_y) THEN sx ELSE size_y
        pixel_area == calculate_polygon_area_pixels(points)
        apparent   == pixels_to_square_meters(pixel_area, sx, sy)
    IN  IF Truthy(reading) /\ Get(Value(reading), "has_angle_data", FALSE)
           /\ ~Get(Value(reading), "is_perpendicular", TRUE)
        THEN LET factor == Get(Value(reading), "correction_factor", One)
             IN  area_result_dict(pixel_area, apparent,
                                  apply_angle_correction(apparent, factor),
                                  factor, TRUE)
        ELSE area_result_dict(pixel_area, apparent, apparent, One, FALSE)

calculate_corrected_area_ignore_flag(points, size_x, size_y, reading) ==
    LET sx == IF IsNone(size_x) THEN Some(DefaultPixelSize) ELSE size_x
        sy == IF IsNone(size_y) THEN sx ELSE size_y
        pixel_area == calculate_polygon_area_pixels(points)
        apparent   == pixels_to_square_meters(pixel_area, sx, sy)
    IN  IF Truthy(reading)
        THEN LET factor == Get(Value(reading), "correction_factor", One)
             IN  area_result_dict(pixel_area, apparent,
                                  apply_angle_correction(apparent, factor),
                                  factor,
                                  ~Get(Value(reading), "is_perpendicular", TRUE))
        ELSE area_result_dict(pixel_area, apparent, apparent, One, FALSE)

calculate_corrected_area_default_one(points, size_x, size_y, reading) ==
    LET sx == IF IsNone(size_x) THEN Some(40) ELSE size_x
        sy == IF IsNone(size_y) THEN sx ELSE size_y
        pixel_area == calculate_polygon_area_pixels(points)
        apparent   == pixels_to_square_meters(pixel_area, sx, sy)
    IN  IF Truthy(reading) /\ Get(Value(reading), "has_angle_data", FALSE)
        THEN LET factor == Get(Value(reading), "correction_factor", One)
             IN  area_result_dict(pixel_area, apparent,
                                  apply_angle_correction(apparent, factor),
                                  factor,
                                  ~Get(Value(reading), "is_perpendicular", TRUE))
        ELSE area_result_dict(pixel_area, apparent, apparent, One, FALSE)

calculate_corrected_area(points, size_x, size_y, reading) ==
    LET sx == IF IsNone(size_x) THEN Some(DefaultPixelSize) ELSE size_x
        sy == IF IsNone(size_y) THEN sx ELSE size_y
        pixel_area == calculate_polygon_area_pixels(points)
        apparent   == pixels_to_square_meters(pixel_area, sx, sy)
    IN  IF Truthy(reading) /\ Get(Value(reading), "has_angle_data", FALSE)
        THEN LET factor == Get(Value(reading), "correction_factor", One)
             IN  area_result_dict(pixel_area, apparent,
                                  apply_angle_correction(apparent, factor),
                                  factor,
                                  ~Get(Value(reading), "is_perpendicular", TRUE))
        ELSE area_result_dict(pixel_area, apparent, apparent, One, FALSE)

\* np.sqrt of an integer, in thousandths.
EdgeLength(dx_meters, dy_meters) ==
    Sqrt(dx_meters * dx_meters + dy_meters * dy_meters)

RECURSIVE PerimeterSum(_, _, _, _)
PerimeterSum(points, sx, sy, i) ==
    IF i > Len(points) THEN 0
    ELSE LET a == points[i]
             b == points[(i % Len(points)) + 1]
             dx_meters == (b[1] - a[1]) * sx
             dy_meters == (b[2] - a[2]) * sy
         IN  EdgeLength(dx_meters, dy_meters)
             + PerimeterSum(points, sx, sy, i + 1)

RECURSIVE OpenSum(_, _, _, _)
OpenSum(points, sx, sy, i) ==
    IF i >= Len(points) THEN 0
    ELSE LET a == points[i]
             b == points[i + 1]
         IN  EdgeLength((b[1] - a[1]) * sx, (b[2] - a[2]) * sy)
             + OpenSum(points, sx, sy, i + 1)

calculate_polygon_perimeter_open(points, size_x, size_y) ==
    IF Len(points) < 3 THEN 0
    ELSE LET sx == IF IsNone(size_x) THEN DefaultPixelSize ELSE Value(size_x)
             sy == IF IsNone(size_y) THEN sx ELSE Value(size_y)
         IN  OpenSum(points, sx, sy, 1)

\* In thousandths of a fortieth of a metre.
calculate_polygon_perimeter(points, size_x, size_y) ==
    IF Len(points) < 3 THEN 0
    ELSE LET sx == IF IsNone(size_x) THEN DefaultPixelSize ELSE Value(size_x)
             sy == IF IsNone(size_y) THEN sx ELSE Value(size_y)
         IN  PerimeterSum(points, sx, sy, 1)

(***************************************************************************)
(* shapely.geometry.Polygon(points).is_valid, for a ring of positive area: *)
(* the closed ring is simple.  Repeated consecutive points are allowed;    *)
(* two edges that are not neighbours must not share a point, and two       *)
(* neighbours must not fold back on each other.                            *)
(***************************************************************************)
\* Cross product of q - p and r - p: its sign is the turn p, q, r makes.
Cross(p, q, r) ==
    (q[1] - p[1]) * (r[2] - p[2]) - (q[2] - p[2]) * (r[1] - p[1])

Turn(p, q, r) ==
    IF Cross(p, q, r) > 0 THEN 1 ELSE IF Cross(p, q, r) < 0 THEN -1 ELSE 0

\* r lies on the closed segment p q.
OnSegment(p, q, r) ==
    /\ Turn(p, q, r) = 0
    /\ Min(p[1], q[1]) <= r[1] /\ r[1] <= Max(p[1], q[1])
    /\ Min(p[2], q[2]) <= r[2] /\ r[2] <= Max(p[2], q[2])

\* The closed segments a b and c d share a point.
SegmentsMeet(a, b, c, d) ==
    \/ /\ Turn(a, b, c) # Turn(a, b, d)
       /\ Turn(c, d, a) # Turn(c, d, b)
    \/ OnSegment(a, b, c)
    \/ OnSegment(a, b, d)
    \/ OnSegment(c, d, a)
    \/ OnSegment(c, d, b)

\* The ring without its repeated consecutive points (the last point counts
\* as followed by the first).
RECURSIVE RingFrom(_, _)
RingFrom(points, i) ==
    IF i > Len(points) THEN << >>
    ELSE IF points[i] = points[(i % Len(points)) + 1]
    THEN RingFrom(points, i + 1)
    ELSE <<points[i]>> \o RingFrom(points, i + 1)

\* The edge after b folds back over the edge a b.
FoldsBack(a, b, c) ==
    /\ Turn(a, b, c) = 0
    /\ (a[1] - b[1]) * (c[1] - b[1]) + (a[2] - b[2]) * (c[2] - b[2]) > 0

is_valid(points) ==
    LET ring == RingFrom(points, 1)
        n    == Len(ring)
        next(i) == (i % n) + 1
    IN  /\ n >= 3
        /\ \A i \in 1..n : ~FoldsBack(ring[i], ring[next(i)],
                                       ring[next(next(i))])
        /\ \A i, j \in 1..n :
               (i < j /\ next(i) # j /\ next(j) # i) =>
                   ~SegmentsMeet(ring[i], ring[next(i)],
                                 ring[j], ring[next(j)])

validate_polygon_ring_first(points) ==
    LET validation == [is_valid             |-> FALSE,
                       point_count          |-> Len(points),
                       has_minimum_points   |-> FALSE,
                       has_area             |-> FALSE,
                       is_self_intersecting |-> FALSE,
                       error_message        |-> None]
    IN  IF Len(points) < 3
        THEN [validation EXCEPT !.error_message =
                 Some("Polygon must have at least 3 points")]
        ELSE IF ~is_valid(points)
        THEN [validation EXCEPT
                 !.has_minimum_points = TRUE,
                 !.is_self_intersecting = TRUE,
                 !.error_message = Some("Polygon is self-intersecting")]
        ELSE IF calculate_polygon_area_pixels(points) > 0
        THEN [validation EXCEPT !.has_minimum_points = TRUE,
                                !.has_area = TRUE,
                                !.is_valid = TRUE]
        ELSE [validation EXCEPT !.has_minimum_points = TRUE,
                                !.error_message = Some("Polygon has no area")]

validate_polygon(points) ==
    LET validation == [is_valid             |-> FALSE,
                       point_count          |-> Len(points),
                       has_minimum_points   |-> FALSE,
                       has_area             |-> FALSE,
                       is_self_intersecting |-> FALSE,
                       error_message        |-> None]
    IN  IF Len(points) < 3
        THEN [validation EXCEPT !.error_message =
                 Some("Polygon must have at least 3 points")]
        ELSE IF calculate_polygon_area_pixels(points) > 0
        THEN IF ~is_valid(points)
             THEN [validation EXCEPT
                      !.has_minimum_points = TRUE,
                      !.has_area = TRUE,
                      !.is_self_intersecting = TRUE,
                      !.error_message = Some("Polygon is self-intersecting")]
             ELSE [validation EXCEPT !.has_minimum_points = TRUE,
                                     !.has_area = TRUE,
                                     !.is_valid = TRUE]
        ELSE [validation EXCEPT !.has_minimum_points = TRUE,
                                !.error_message = Some("Polygon has no area")]

\* Square feet per square metre, 10.764.
SqftPerM2 == 10764 * Limb

RECURSIVE CountValid(_, _)
CountValid(polygons, i) ==
    IF i > Len(polygons) THEN 0
    ELSE (IF Len(polygons[i]) >= 3 THEN 1 ELSE 0) + CountValid(polygons, i + 1)

empty_results_valid_only(polygons) ==
    [individual_areas_m2              |-> << >>,
     individual_areas_sqft            |-> << >>,
     individual_corrected_areas_m2    |-> << >>,
     individual_corrected_areas_sqft  |-> << >>,
     individual_perimeters_m          |-> << >>,
     individual_corrections           |-> << >>,
     total_apparent_area_m2           |-> 0,
     total_corrected_area_m2          |-> 0,
     total_apparent_area_sqft         |-> 0,
     total_corrected_area_sqft        |-> 0,
     total_perimeter_m                |-> 0,
     polygon_count                    |-> CountValid(polygons, 1),
     total_correction_factors         |-> 0,
     corrections_applied              |-> 0]

\* results as calculate_multiple_polygons initialises it, with the two
\* local counters of the loop.
empty_results(polygons) ==
    [individual_areas_m2              |-> << >>,
     individual_areas_sqft            |-> << >>,
     individual_corrected_areas_m2    |-> << >>,
     individual_corrected_areas_sqft  |-> << >>,
     individual_perimeters_m          |-> << >>,
     individual_corrections           |-> << >>,
     total_apparent_area_m2           |-> 0,
     total_corrected_area_m2          |-> 0,
     total_apparent_area_sqft         |-> 0,
     total_corrected_area_sqft        |-> 0,
     total_perimeter_m                |-> 0,
     polygon_count                    |-> Len(polygons),
     total_correction_factors         |-> 0,
     corrections_applied              |-> 0]

add_polygon_count_all(acc, points, sx, sy, reading) ==
    LET r == calculate_corrected_area(points, sx, sy, reading)
        apparent_area_m2    == r.apparent_area_m2
        corrected_area_m2   == r.corrected_area_m2
        apparent_area_sqft  == MulFix(apparent_area_m2, SqftPerM2)
        corrected_area_sqft == MulFix(corrected_area_m2, SqftPerM2)
        perimeter_m         == calculate_polygon_perimeter(points, sx, sy)
    IN  [acc EXCEPT
         !.individual_areas_m2 = Append(@, apparent_area_m2),
         !.individual_areas_sqft = Append(@, apparent_area_sqft),
         !.individual_corrected_areas_m2 = Append(@, corrected_area_m2),
         !.individual_corrected_areas_sqft = Append(@, corrected_area_sqft),
         !.individual_perimeters_m = Append(@, perimeter_m),
         !.individual_corrections = Append(@, r),
         !.total_apparent_area_m2 = @ + apparent_area_m2,
         !.total_corrected_area_m2 = @ + corrected_area_m2,
         !.total_apparent_area_sqft = @ + apparent_area_sqft,
         !.total_corrected_area_sqft = @ + corrected_area_sqft,
         !.total_perimeter_m = @ + perimeter_m,
         !.total_correction_factors = @ + r.correction_factor,
         !.corrections_applied = @ + 1]

\* One pass of the loop body, for polygon i.
add_polygon(acc, points, sx, sy, reading) ==
    LET r == calculate_corrected_area(points, sx, sy, reading)
        apparent_area_m2    == r.apparent_area_m2
        corrected_area_m2   == r.corrected_area_m2
        apparent_area_sqft  == MulFix(apparent_area_m2, SqftPerM2)
        corrected_area_sqft == MulFix(corrected_area_m2, SqftPerM2)
        perimeter_m         == calculate_polygon_perimeter(points, sx, sy)
    IN  [acc EXCEPT
         !.individual_areas_m2 = Append(@, apparent_area_m2),
         !.individual_areas_sqft = Append(@, apparent_area_sqft),
         !.individual_corrected_areas_m2 = Append(@, corrected_area_m2),
         !.individual_corrected_areas_sqft = Append(@, corrected_area_sqft),
         !.individual_perimeters_m = Append(@, perimeter_m),
         !.individual_corrections = Append(@, r),
         !.total_apparent_area_m2 = @ + apparent_area_m2,
         !.total_corrected_area_m2 = @ + corrected_area_m2,
         !.total_apparent_area_sqft = @ + apparent_area_sqft,
         !.total_corrected_area_sqft = @ + corrected_area_sqft,
         !.total_perimeter_m = @ + perimeter_m,
         !.total_correction_factors =
             IF r.correction_applied THEN @ + r.correction_factor ELSE @,
         !.corrections_applied =
             IF r.correction_applied THEN @ + 1 ELSE @]

RECURSIVE loop_polygons(_, _, _, _, _, _)
loop_polygons(acc, polygons, sx, sy, reading, i) ==
    IF i > Len(polygons) THEN acc
    ELSE loop_polygons(add_polygon(acc, polygons[i], sx, sy, reading),
                       polygons, sx, sy, reading, i + 1)

\* The correction summary, from the totals and the counters after the loop.
correction_summary(acc) ==
    IF acc.corrections_applied > 0
    THEN [correction_applied |-> TRUE,
          average_correction_factor |->
              acc.total_correction_factors \div acc.corrections_applied,
          total_area_difference_m2 |->
              acc.total_corrected_area_m2 - acc.total_apparent_area_m2,
          total_area_difference_percent |->
              IF acc.total_apparent_area_m2 > 0
              THEN (DivFix(acc.total_corrected_area_m2,
                           acc.total_apparent_area_m2) - One) * 100
              ELSE 0]
    ELSE [correction_applied |-> FALSE,
          average_correction_factor |-> One,
          total_area_difference_m2 |-> 0,
          total_area_difference_percent |-> 0]

ResultKeys ==
    {"individual_areas_m2", "individual_areas_sqft",
     "individual_corrected_areas_m2", "individual_corrected_areas_sqft",
     "individual_perimeters_m", "individual_corrections",
     "total_apparent_area_m2", "total_corrected_area_m2",
     "total_apparent_area_sqft", "total_corrected_area_sqft",
     "total_perimeter_m", "polygon_count"}

calculate_multiple_polygons_default_y(polygons, size_x, size_y, reading) ==
    LET sx  == IF IsNone(size_x) THEN Some(DefaultPixelSize) ELSE size_x
        sy  == IF IsNone(size_y) THEN Some(DefaultPixelSize) ELSE size_y
        acc == loop_polygons(empty_results(polygons), polygons, sx, sy,
                             reading, 1)
    IN  [k \in ResultKeys \cup {"angle_correction_summary"} |->
            IF k = "angle_correction_summary" THEN correction_summary(acc)
            ELSE acc[k]]

calculate_multiple_polygons(polygons, size_x, size_y, reading) ==
    LET sx  == IF IsNone(size_x) THEN Some(DefaultPixelSize) ELSE size_x
        sy  == IF IsNone(size_y) THEN sx ELSE size_y
        acc == loop_polygons(empty_results(polygons), polygons, sx, sy,
                             reading, 1)
    IN  [k \in ResultKeys \cup {"angle_correction_summary"} |->
            IF k = "angle_correction_summary" THEN correction_summary(acc)
            ELSE acc[k]]

(***************************************************************************)
(* AngleExtractor on an image's metadata.  An image is a record: opens     *)
(* tells whether Image.open succeeds, exif is the exif_dict (a function    *)
(* from the tags present to their raw values) and raster is what           *)
(* rasterio.open meets: "unreadable", "no_crs" or "crs".                   *)
(***************************************************************************)
\* Raw values of a tag: a number, a string that spells a number, and a
\* string that does not.
Number(v) == [kind |-> "number", value |-> v]

NumericText(v) == [kind |-> "numeric_text", value |-> v]

Text == [kind |-> "text", value |-> 0]

\* float(value): None stands for the ValueError it raises.
float(raw) == IF raw.kind \in {"number", "numeric_text"}
              THEN Some(raw.value)
              ELSE None

\* f"{camera_make} {camera_model}".strip()
format_camera(camera_make, camera_model) ==
    IF camera_make = "" THEN camera_model
    ELSE IF camera_model = "" THEN camera_make
    ELSE camera_make \o " " \o camera_model

\* 'DJI' in f"{camera_make} {camera_model}".upper()
is_dji(camera_make, camera_model) ==
    \/ camera_make \in {"DJI", "dji"}
    \/ camera_model \in {"DJI", "dji"}

angle_fields_flight_first ==
    <<(<<"FlightPitchDegree", "pitch_angle">>),
      (<<"FlightRollDegree", "roll_angle">>),
      (<<"GimbalPitchDegree", "pitch_angle">>),
      (<<"GimbalRollDegree", "roll_angle">>),
      (<<"CameraPitch", "pitch_angle">>),
      (<<"CameraRoll", "roll_angle">>)>>

\* The angle_fields dict, in its insertion order.
angle_fields ==
    <<(<<"CameraPitch", "pitch_angle">>),
      (<<"CameraRoll", "roll_angle">>),
      (<<"GimbalPitchDegree", "pitch_angle">>),
      (<<"GimbalRollDegree", "roll_angle">>),
      (<<"FlightPitchDegree", "pitch_angle">>),
      (<<"FlightRollDegree", "roll_angle">>)>>

\* The loop over angle_fields from its i-th item on; raised is set when
\* float() raises, which leaves the loop with result as it is then.
RECURSIVE read_angle_fields(_, _, _)
read_angle_fields(acc, exif_dict, i) ==
    IF i > Len(angle_fields) \/ acc.raised THEN acc
    ELSE LET exif_field == angle_fields[i][1]
             angle_type == angle_fields[i][2]
         IN  IF exif_field \in DOMAIN exif_dict
             THEN LET angle_value == float(exif_dict[exif_field])
                  IN  IF IsNone(angle_value)
                      THEN [acc EXCEPT !.raised = TRUE]
                      ELSE read_angle_fields(
                               [acc EXCEPT
                                   !.result[angle_type] = Value(angle_value),
                                   !.angles_found = TRUE],
                               exif_dict, i + 1)
             ELSE read_angle_fields(acc, exif_dict, i + 1)

_extract_from_exif(img) ==
    LET result == [has_angle_data |-> FALSE,
                   pitch_angle    |-> 0,
                   roll_angle     |-> 0,
                   camera_model   |-> None,
                   image_type     |-> "standard",
                   angle_source   |-> Some("exif")]
    IN  IF ~img.opens THEN result
        ELSE IF DOMAIN img.exif = {} THEN result
        ELSE LET camera_make  == Get(img.exif, "Make", "")
                 camera_model == Get(img.exif, "Model", "")
                 named == [result EXCEPT !.camera_model =
                              Some(format_camera(camera_make, camera_model))]
                 acc == read_angle_fields([result       |-> named,
                                           angles_found |-> FALSE,
                                           raised       |-> FALSE],
                                          img.exif, 1)
             IN  IF acc.raised THEN acc.result
                 ELSE IF acc.angles_found
                 THEN [acc.result EXCEPT
                          !.has_angle_data = TRUE,
                          !.image_type =
                              IF is_dji(camera_make, camera_model)
                              THEN "dji_drone" ELSE "drone"]
                 ELSE acc.result

_extract_from_geotiff(img) ==
    LET result == [has_angle_data |-> FALSE,
                   pitch_angle    |-> 0,
                   roll_angle     |-> 0,
                   camera_model   |-> Some("Processed"),
                   image_type     |-> "standard",
                   angle_source   |-> Some("geotiff")]
    IN  IF img.raster = "crs"
        THEN [result EXCEPT !.image_type = "orthorectified",
                            !.has_angle_data = TRUE,
                            !.camera_model = Some("Orthorectified GeoTIFF")]
        ELSE result

extract_angles_from_image_raster_first(img) ==
    LET angles == _extract_from_geotiff(img)
    IN  extract_result(IF ~angles.has_angle_data
                       THEN _extract_from_exif(img)
                       ELSE angles)

extract_angles_from_image_no_fallback(img) ==
    extract_result(_extract_from_exif(img))

extract_angles_from_image(img) ==
    LET angles == _extract_from_exif(img)
    IN  extract_result(IF ~angles.has_angle_data
                       THEN _extract_from_geotiff(img)
                       ELSE angles)

get_angle_warning_by_factor(reading) ==
    IF ~reading.has_angle_data THEN None
    ELSE IF reading.correction_factor > 15 * 10^5
    THEN Some("High angle correction applied - consider using perpendicular imagery for maximum accuracy")
    ELSE IF reading.correction_factor > 12 * 10^5
    THEN Some("Moderate angle correction applied - accuracy reduced compared to perpendicular imagery")
    ELSE None

\* The warning text, None when there is none.
get_angle_warning(reading) ==
    IF ~reading.has_angle_data \/ reading.is_perpendicular THEN None
    ELSE IF reading.correction_factor > 15 * 10^5
    THEN Some("High angle correction applied - consider using perpendicular imagery for maximum accuracy")
    ELSE IF reading.correction_factor > 12 * 10^5
    THEN Some("Moderate angle correction applied - accuracy reduced compared to perpendicular imagery")
    ELSE None

(***************************************************************************)
(* MaterialCalculator.  Thicknesses are in millimetres, waste factors in   *)
(* millionths, areas in thousandths of a square metre and volumes in       *)
(* thousandths of a cubic metre; area_m2 is passed in whole units.         *)
(***************************************************************************)
material_profiles ==
    [concrete_tiles |-> [name |-> "Concrete Tiles", unit |-> "m3",
                         waste_factor |-> 110 * 10^4,
                         thickness_m |-> 60, minimum_thickness_m |-> 60],
     asphalt        |-> [name |-> "Asphalt", unit |-> "m3",
                         waste_factor |-> 105 * 10^4,
                         thickness_m |-> 50, minimum_thickness_m |-> 50],
     concrete_slab  |-> [name |-> "Concrete Slab", unit |-> "m3",
                         waste_factor |-> 108 * 10^4,
                         thickness_m |-> 150, minimum_thickness_m |-> 100],
     brick_pavers   |-> [name |-> "Brick Pavers", unit |-> "m3",
                         waste_factor |-> 115 * 10^4,
                         thickness_m |-> 60, minimum_thickness_m |-> 60],
     gravel         |-> [name |-> "Gravel", unit |-> "m3",
                         waste_factor |-> 120 * 10^4,
                         thickness_m |-> 100, minimum_thickness_m |-> 50]]

\* material_profiles.get(material_key, {})
get_material_profile(material_key) == Get(material_profiles, material_key, << >>)

\* a or b, for an optional number a: b when a is None or 0.
Or(a, b) == IF IsNone(a) \/ Value(a) = 0 THEN b ELSE Value(a)

calculate_material_quantity(area_m2, material_key, custom_thickness, is_volume) ==
    LET profile == get_material_profile(material_key)
    IN  IF DOMAIN profile = {}
        THEN [error |-> "Material not found"]
        ELSE LET thickness == Or(custom_thickness,
                                 Get(profile, "thickness_m", 100))
                 min_thickness == Get(profile, "minimum_thickness_m", 50)
                 actual_thickness == Max(thickness, min_thickness)
                 volume_m3 == IF is_volume THEN area_m2 * Limb
                              ELSE area_m2 * actual_thickness
                 effective_volume == MulFix(volume_m3, profile.waste_factor)
                 area_for_installation ==
                     IF is_volume
                     THEN (volume_m3 * Limb * Sgn(thickness))
                              \div Abs(thickness)
                     ELSE area_m2 * Limb
             IN  [material_name       |-> profile.name,
                  base_area_m2        |-> area_for_installation,
                  volume_m3           |-> volume_m3,
                  effective_volume_m3 |-> effective_volume,
                  waste_factor        |-> profile.waste_factor,
                  primary_quantity    |-> effective_volume,
                  unit                |-> profile.unit,
                  thickness_used_m    |->
                      Or(custom_thickness, Get(profile, "thickness_m", 0))]

(***************************************************************************)
(* Inputs of the area calls.                                               *)
(***************************************************************************)
MaxPoints == 4

Coords == {0, 1, 100}

Corners == {0, 100}

PolygonsOver(C, n) == UNION {[1..k -> C \X C] : k \in 0..n}

Square == <<(<<0, 0>>), (<<100, 0>>), (<<100, 100>>), (<<0, 100>>)>>

\* None, 0.075 and 0.1 m/pixel, and the degenerate scales 0 and -0.1.
PixelSizes == {None, Some(3), Some(4), Some(0), Some(-4)}

\* Readings written by hand, as the tests do: any flags with any factor.
CallerReadings ==
    [has_angle_data    : BOOLEAN,
     is_perpendicular  : BOOLEAN,
     pitch_angle       : {-60},
     roll_angle        : {5},
     correction_factor : {One \div 2, One, 1155000, 5 * One}]

\* Readings as extract_angles_from_image produces them.
ExtractedReadings ==
    {extract_result(exif_angles(a[1], a[2])) :
        a \in {<<-60, 5>>, <<-90, 0>>, <<-75, 2>>, <<85, 0>>, <<88, -3>>}}

\* What extraction returns for a georeferenced image without angle tags.
GeoreferencedReading ==
    extract_angles_from_image([opens |-> TRUE, exif |-> << >>,
                               raster |-> "crs"])

\* Dicts that lack keys (read with dict.get), and the empty dict.
PartialReadings ==
    {[has_angle_data |-> TRUE],
     [has_angle_data |-> TRUE, correction_factor |-> 1155000],
     << >>}

Readings ==
    {None} \cup {Some(r) : r \in CallerReadings \cup ExtractedReadings
                                  \cup PartialReadings
                                  \cup {GeoreferencedReading}}

(***************************************************************************)
(* Inputs of calculate_multiple_polygons.                                  *)
(***************************************************************************)
MaxPolygons == 3

\* Rectangles of 2000, 4500 and 1500 square pixels.
Rect2000 == <<(<<0, 0>>), (<<50, 0>>), (<<50, 40>>), (<<0, 40>>)>>

Rect4500 == <<(<<0, 0>>), (<<90, 0>>), (<<90, 50>>), (<<0, 50>>)>>

Rect1500 == <<(<<10, 10>>), (<<10, 40>>), (<<60, 40>>), (<<60, 10>>)>>

ScenarioC == <<Rect2000, Rect4500, Rect1500>>

\* The empty polygon, a two-point polygon and the rectangles.
AggregatePolygons ==
    {<< >>, <<(<<0, 0>>), (<<100, 0>>)>>, Rect2000, Rect4500, Rect1500}

PolygonLists == UNION {[1..k -> AggregatePolygons] : k \in 0..MaxPolygons}

\* (pixel_size_x, pixel_size_y): both None, one None, 0.075 and 0.1 m/pixel.
AggregateSizes ==
    {<<None, None>>, <<Some(3), None>>, <<None, Some(3)>>,
     <<Some(3), Some(3)>>, <<Some(4), Some(4)>>, <<Some(4), Some(3)>>}

AggregateReadings ==
    {None}
    \cup {Some(r) : r \in [has_angle_data    : BOOLEAN,
                           is_perpendicular  : BOOLEAN,
                           pitch_angle       : {-75},
                           roll_angle        : {3},
                           correction_factor : {One, 1035000, 5 * One}]}
    \cup {Some(extract_result(exif_angles(88, -3))),
          Some(GeoreferencedReading)}

\* No image service and no concurrent caller is involved.
NoService ==
    /\ args = << >>
    /\ files = {}
    /\ image_data = None
    /\ threads = << >>
    /\ frames = << >>
    /\ shared = << >>

(***************************************************************************)
(* State machine.  The engine keeps no state between calls: a behaviour is *)
(* one call.  The initial state holds the call (op) and its arguments, pc  *)
(* = "call"; the action of that operation runs the whole function and      *)
(* stores what it returns, pc = "return".                                  *)
(***************************************************************************)
NoResult == [op |-> "none"]

NoImage == [pitch |-> 0, roll |-> 0]

\* An image whose angle tags resolve to (pitch, roll), about to be read.
InitAngle ==
    /\ op = "extract_angles_from_image"
    /\ pc = "call"
    /\ image \in [pitch : Angles, roll : Angles]
    /\ angle_data = None
    /\ polygon_points = << >>
    /\ pixel_size_x = None
    /\ pixel_size_y = None
    /\ area_result = NoResult
    /\ polygons_list = << >>
    /\ results = NoResult
    /\ returned = None
    /\ NoService

ExtractAngles ==
    /\ op = "extract_angles_from_image"
    /\ pc = "call"
    /\ pc' = "return"
    /\ angle_data' = Some(extract_result(exif_angles(image.pitch, image.roll)))
    /\ UNCHANGED <<op, image, polygon_points, pixel_size_x, pixel_size_y,
                   area_result, polygons_list, results, returned,
                   service_vars>>

NextAngle == ExtractAngles

SpecAngle == InitAngle /\ [][NextAngle]_vars

\* A call of calculate_polygon_area_pixels or of calculate_corrected_area.
InitArea ==
    /\ pc = "call"
    /\ image = NoImage
    /\ area_result = NoResult
    /\ polygons_list = << >>
    /\ results = NoResult
    /\ returned = None
    /\ NoService
    /\ \/ /\ op = "calculate_polygon_area_pixels"
          /\ polygon_points \in PolygonsOver(Coords, MaxPoints)
          /\ pixel_size_x = None
          /\ pixel_size_y = None
          /\ angle_data = None
       \/ /\ op = "calculate_corrected_area"
          /\ polygon_points \in PolygonsOver(Corners, MaxPoints)
          /\ pixel_size_x \in PixelSizes
          /\ pixel_size_y \in PixelSizes
          /\ angle_data \in Readings

CalculatePolygonAreaPixels ==
    /\ op = "calculate_polygon_area_pixels"
    /\ pc = "call"
    /\ pc' = "return"
    /\ area_result' = [op |-> op,
                       area |-> calculate_polygon_area_pixels(polygon_points)]
    /\ UNCHANGED <<op, image, angle_data, polygon_points, pixel_size_x,
                   pixel_size_y, polygons_list, results, returned,
                   service_vars>>

CalculateCorrectedArea ==
    /\ op = "calculate_corrected_area"
    /\ pc = "call"
    /\ pc' = "return"
    /\ area_result' = calculate_corrected_area(polygon_points, pixel_size_x,
                                               pixel_size_y, angle_data)
    /\ UNCHANGED <<op, image, angle_data, polygon_points, pixel_size_x,
                   pixel_size_y, polygons_list, results, returned,
                   service_vars>>

NextArea == CalculatePolygonAreaPixels \/ CalculateCorrectedArea

SpecArea == InitArea /\ [][NextArea]_vars

\* A call of calculate_multiple_polygons.
InitAggregate ==
    /\ op = "calculate_multiple_polygons"
    /\ pc = "call"
    /\ image = NoImage
    /\ area_result = NoResult
    /\ polygon_points = << >>
    /\ results = NoResult
    /\ returned = None
    /\ NoService
    /\ polygons_list \in PolygonLists
    /\ \E sizes \in AggregateSizes :
           /\ pixel_size_x = sizes[1]
           /\ pixel_size_y = sizes[2]
    /\ angle_data \in AggregateReadings

CalculateMultiplePolygons ==
    /\ op = "calculate_multiple_polygons"
    /\ pc = "call"
    /\ pc' = "return"
    /\ results' = calculate_multiple_polygons(polygons_list, pixel_size_x,
                                              pixel_size_y, angle_data)
    /\ UNCHANGED <<op, image, angle_data, polygon_points, pixel_size_x,
                   pixel_size_y, area_result, polygons_list, returned,
                   service_vars>>

NextAggregate == CalculateMultiplePolygons

SpecAggregate == InitAggregate /\ [][NextAggregate]_vars

\* The calls that take a pixel scale.
SpecScale ==
    (InitArea \/ InitAggregate) /\ [][NextArea \/ NextAggregate]_vars

(***************************************************************************)
(* Inputs of extract_angles_from_image: the images.                        *)
(***************************************************************************)
AngleFieldNames == {angle_fields[i][1] : i \in DOMAIN angle_fields}

Absent == [kind |-> "absent", value |-> 0]

RawValues == {Number(-90), Number(-60), NumericText(5), Text}

\* Make and Model of the camera; "" for a tag that is absent.
Cameras == {[Make |-> "", Model |-> ""],
            [Make |-> "DJI", Model |-> "FC220"],
            [Make |-> "Parrot", Model |-> ""]}

\* The exif_dict with the angle tags that tags does not map to Absent and
\* the camera's non-empty tags.
exif_dict_of(tags, camera) ==
    [k \in {f \in AngleFieldNames : tags[f] # Absent}
            \cup {f \in {"Make", "Model"} : camera[f] # ""} |->
        IF k \in {"Make", "Model"} THEN camera[k] ELSE tags[k]]

ExifDicts ==
    {exif_dict_of(tags, camera) :
        tags \in [AngleFieldNames -> RawValues \cup {Absent}],
        camera \in Cameras}

EmptyExif == exif_dict_of([f \in AngleFieldNames |-> Absent],
                          [Make |-> "", Model |-> ""])

Rasters == {"unreadable", "no_crs", "crs"}

\* A file that Image.open rejects, and the files it opens.
Images ==
    [opens : {FALSE}, exif : {EmptyExif}, raster : Rasters]
        \cup [opens : {TRUE}, exif : ExifDicts, raster : Rasters]

\* An image file, about to be read.
InitExtract ==
    /\ op = "extract_angles_from_image"
    /\ pc = "open"
    /\ image \in Images
    /\ angle_data = None
    /\ polygon_points = << >>
    /\ pixel_size_x = None
    /\ pixel_size_y = None
    /\ area_result = NoResult
    /\ polygons_list = << >>
    /\ results = NoResult
    /\ returned = None
    /\ NoService

ExtractAnglesFromImage ==
    /\ op = "extract_angles_from_image"
    /\ pc = "open"
    /\ pc' = "return"
    /\ angle_data' = Some(extract_angles_from_image(image))
    /\ UNCHANGED <<op, image, polygon_points, pixel_size_x, pixel_size_y,
                   area_result, polygons_list, results, returned,
                   service_vars>>

NextExtract == ExtractAnglesFromImage

SpecExtract == InitExtract /\ [][NextExtract]_vars

(***************************************************************************)
(* get_angle_warning on a reading.                                         *)
(***************************************************************************)
\* Readings around the thresholds 1.2 and 1.5, and what extraction returns
\* for some tags.
WarningReadings ==
    [has_angle_data    : BOOLEAN,
     is_perpendicular  : BOOLEAN,
     pitch_angle       : {-60, -90},
     roll_angle        : {0},
     correction_factor : {One, 11 * 10^5, 12 * 10^5, 12 * 10^5 + 1,
                          135 * 10^4, 15 * 10^5, 15 * 10^5 + 1, 2 * One,
                          3 * One, 5 * One},
     image_type        : {"drone"},
     camera_model      : {Some("")},
     angle_source      : {Some("exif")}]
    \cup ExtractedReadings

InitWarning ==
    /\ op = "get_angle_warning"
    /\ pc = "call"
    /\ image = NoImage
    /\ angle_data \in {Some(r) : r \in WarningReadings}
    /\ polygon_points = << >>
    /\ pixel_size_x = None
    /\ pixel_size_y = None
    /\ area_result = NoResult
    /\ polygons_list = << >>
    /\ results = NoResult
    /\ returned = None
    /\ NoService

GetAngleWarning ==
    /\ op = "get_angle_warning"
    /\ pc = "call"
    /\ pc' = "return"
    /\ returned' = Some(get_angle_warning(Value(angle_data)))
    /\ UNCHANGED <<op, image, angle_data, polygon_points, pixel_size_x,
                   pixel_size_y, area_result, polygons_list, results,
                   service_vars>>

NextWarning == GetAngleWarning

SpecWarning == InitWarning /\ [][NextWarning]_vars

(***************************************************************************)
(* validate_polygon on a polygon.                                          *)
(***************************************************************************)
InitValidate ==
    /\ op = "validate_polygon"
    /\ pc = "call"
    /\ image = NoImage
    /\ angle_data = None
    /\ polygon_points \in PolygonsOver(Coords, MaxPoints)
    /\ pixel_size_x = None
    /\ pixel_size_y = None
    /\ area_result = NoResult
    /\ polygons_list = << >>
    /\ results = NoResult
    /\ returned = None
    /\ NoService

ValidatePolygon ==
    /\ op = "validate_polygon"
    /\ pc = "call"
    /\ pc' = "return"
    /\ returned' = Some(validate_polygon(polygon_points))
    /\ UNCHANGED <<op, image, angle_data, polygon_points, pixel_size_x,
                   pixel_size_y, area_result, polygons_list, results,
                   service_vars>>

NextValidate == ValidatePolygon

SpecValidate == InitValidate /\ [][NextValidate]_vars

(***************************************************************************)
(* calculate_polygon_perimeter on a polygon.                               *)
(***************************************************************************)
\* The corners of a 30 x 40 pixel rectangle.
PerimeterCorners == {0, 30} \X {0, 40}

PerimeterPolygons == UNION {[1..k -> PerimeterCorners] : k \in 0..MaxPoints}

InitPerimeter ==
    /\ op = "calculate_polygon_perimeter"
    /\ pc = "call"
    /\ image = NoImage
    /\ angle_data = None
    /\ polygon_points \in PerimeterPolygons
    /\ \E sizes \in AggregateSizes :
           /\ pixel_size_x = sizes[1]
           /\ pixel_size_y = sizes[2]
    /\ area_result = NoResult
    /\ polygons_list = << >>
    /\ results = NoResult
    /\ returned = None
    /\ NoService

CalculatePolygonPerimeter ==
    /\ op = "calculate_polygon_perimeter"
    /\ pc = "call"
    /\ pc' = "return"
    /\ returned' = Some(calculate_polygon_perimeter(polygon_points,
                                                     pixel_size_x,
                                                     pixel_size_y))
    /\ UNCHANGED <<op, image, angle_data, polygon_points, pixel_size_x,
                   pixel_size_y, area_result, polygons_list, results,
                   service_vars>>

NextPerimeter == CalculatePolygonPerimeter

SpecPerimeter == InitPerimeter /\ [][NextPerimeter]_vars

(***************************************************************************)
(* calculate_material_quantity.                                            *)
(***************************************************************************)
\* The five profiles and a key that has none.
MaterialKeys == DOMAIN material_profiles \cup {"marble"}

\* No custom thickness, 0, and thicknesses below, at and above the minima.
CustomThicknesses ==
    {None, Some(0), Some(20), Some(60), Some(80), Some(200)}

MaterialAreas == {0, 1, 40}

InitMaterial ==
    /\ op = "calculate_material_quantity"
    /\ pc = "call"
    /\ image = NoImage
    /\ angle_data = None
    /\ polygon_points = << >>
    /\ pixel_size_x = None
    /\ pixel_size_y = None
    /\ area_result = NoResult
    /\ polygons_list = << >>
    /\ results = NoResult
    /\ returned = None
    /\ args \in [area_m2          : MaterialAreas,
                 material_key     : MaterialKeys,
                 custom_thickness : CustomThicknesses,
                 is_volume        : BOOLEAN]
    /\ files = {}
    /\ image_data = None
    /\ threads = << >>
    /\ frames = << >>
    /\ shared = << >>

CalculateMaterialQuantity ==
    /\ op = "calculate_material_quantity"
    /\ pc = "call"
    /\ pc' = "return"
    /\ returned' = Some(calculate_material_quantity(args.area_m2,
                                                     args.material_key,
                                                     args.custom_thickness,
                                                     args.is_volume))
    /\ UNCHANGED <<op, image, angle_data, polygon_points, pixel_size_x,
                   pixel_size_y, area_result, polygons_list, results,
                   service_vars>>

NextMaterial == CalculateMaterialQuantity

SpecMaterial == InitMaterial /\ [][NextMaterial]_vars

(***************************************************************************)
(* ImageService and the endpoint calc_custom_area.  The file system is a   *)
(* function from the paths that exist to the content of the file, a record *)
(* as the images above; a path is a pair (directory, name).                *)
(***************************************************************************)
\* __image_filetype: the ImageTypes member, "None" for an unknown extension.
image_filetype(picture_id) ==
    CASE picture_id \in {"site.tiff"} -> "TIFF"
      [] picture_id \in {"site.tif"}  -> "TIF"
      [] picture_id \in {"photo.png"} -> "PNG"
      [] picture_id \in {"photo.jpg"} -> "JPG"
      [] OTHER                        -> "None"

\* The name tempfile.NamedTemporaryFile picks: one that does not exist.
temp_path(fs) ==
    IF <<"tmp", "1">> \in DOMAIN fs THEN <<"tmp", "2">> ELSE <<"tmp", "1">>

\* tmp_file.write(file_content) on a new file.
write_file(fs, path, content) ==
    [q \in DOMAIN fs \cup {path} |-> IF q = path THEN content ELSE fs[q]]

\* os.unlink(path)
unlink(fs, path) == [q \in DOMAIN fs \ {path} |-> fs[q]]

\* __load_standard_image: the file system it leaves, and the dict it
\* returns or None when it raises.
load_standard_image(fs, picture_id) ==
    LET file_content == fs[<<"data", picture_id>>]
        tmp_path     == temp_path(fs)
        written      == write_file(fs, tmp_path, file_content)
    IN  IF file_content.opens
        THEN [fs |-> written,
              result |-> Some([has_geospatial |-> FALSE,
                               file_path      |-> tmp_path])]
        ELSE [fs |-> written, result |-> None]

\* __load_tiff_image, its finally clause included.
load_tiff_image(fs, picture_id) ==
    LET file_content == fs[<<"data", picture_id>>]
        tmp_path     == temp_path(fs)
        written      == write_file(fs, tmp_path, file_content)
        result ==
            IF file_content.raster # "unreadable"
            THEN Some([has_geospatial |-> file_content.raster = "crs",
                       file_path      |-> tmp_path])
            ELSE IF file_content.opens
            THEN Some([has_geospatial |-> FALSE, file_path |-> tmp_path])
            ELSE None
    IN  [fs |-> unlink(written, tmp_path), result |-> result]

\* load_image: None for the image when the call raises.
load_image(fs, picture_id) ==
    LET file_type == image_filetype(picture_id)
        first     == load_standard_image(fs, picture_id)
    IN  IF IsNone(first.result) THEN first
        ELSE IF file_type = "None" THEN [fs |-> first.fs, result |-> None]
        ELSE IF file_type \in {"TIFF", "TIF"}
        THEN load_tiff_image(first.fs, picture_id)
        ELSE load_standard_image(first.fs, picture_id)

\* What Image.open and rasterio.open meet at a path that does not exist.
MissingFile == [opens |-> FALSE, exif |-> << >>, raster |-> "unreadable"]

\* extract_and_display_angle_info: the reading.
extract_and_display_angle_info(fs, data) ==
    LET file_path == data.file_path
    IN  extract_angles_from_image(IF file_path \in DOMAIN fs
                                  THEN fs[file_path]
                                  ELSE MissingFile)

PictureIds == {"site.tiff", "site.tif", "photo.png", "photo.jpg", "notes.txt"}

\* Pictures with and without angle tags, readable or not by PIL and by
\* rasterio, with and without coordinate-reference system.
Pictures ==
    [opens  : BOOLEAN,
     exif   : {EmptyExif,
               exif_dict_of([f \in AngleFieldNames |->
                                IF f = "GimbalPitchDegree" THEN Number(-60)
                                ELSE Absent],
                            [Make |-> "DJI", Model |-> "FC220"])},
     raster : Rasters]

\* A request for the area of a stored picture.
InitService ==
    /\ op = "calc_custom_area"
    /\ pc = "call"
    /\ image \in Pictures
    /\ angle_data = None
    /\ polygon_points = << >>
    /\ pixel_size_x = None
    /\ pixel_size_y = None
    /\ area_result = NoResult
    /\ polygons_list = << >>
    /\ results = NoResult
    /\ returned = None
    /\ args \in [picture_id : PictureIds]
    /\ files = [q \in {<<"data", args.picture_id>>} |-> image]
    /\ image_data = None
    /\ threads = << >>
    /\ frames = << >>
    /\ shared = << >>

\* image_data = image_service.load_image(picture_id)
LoadImage ==
    /\ op = "calc_custom_area"
    /\ pc = "call"
    /\ LET loaded == load_image(files, args.picture_id)
       IN  /\ files' = loaded.fs
           /\ image_data' = loaded.result
           /\ pc' = IF IsNone(loaded.result) THEN "raised" ELSE "loaded"
    /\ UNCHANGED <<op, image, angle_data, polygon_points, pixel_size_x,
                   pixel_size_y, area_result, polygons_list, results,
                   returned, args, threads, frames, shared>>

\* angle_data = image_service.extract_and_display_angle_info(image_data)
ExtractAndDisplayAngleInfo ==
    /\ op = "calc_custom_area"
    /\ pc = "loaded"
    /\ pc' = "extracted"
    /\ angle_data' = Some(extract_and_display_angle_info(files,
                                                         Value(image_data)))
    /\ UNCHANGED <<op, image, polygon_points, pixel_size_x, pixel_size_y,
                   area_result, polygons_list, results, returned,
                   service_vars>>

NextService == LoadImage \/ ExtractAndDisplayAngleInfo

SpecService == InitService /\ [][NextService]_vars

(***************************************************************************)
(* Concurrent calls on one AreaCalculator and one AngleExtractor.  shared  *)
(* holds the two objects and the argument objects of each caller; threads  *)
(* holds, per caller, the call as the caller made it, the position in it   *)
(* and its result; frames holds the local variable results of each         *)
(* activation of calculate_multiple_polygons.  The loop of                 *)
(* calculate_multiple_polygons yields to the other caller between          *)
(* iterations; the other calls are one step.                               *)
(***************************************************************************)
Threads == {1, 2}

\* AreaCalculator.__init__ sets no attribute; AngleExtractor.__init__ sets
\* angle_tolerance.
Objects == [calculator |-> << >>,
            extractor  |-> [angle_tolerance |-> angle_tolerance]]

frame_of_instance(t) == 1

\* The activation record that holds the local results of caller t.
frame_of(t) == t

\* _is_perpendicular, reading angle_tolerance from the extractor object.
is_perpendicular_of(extractor, pitch_angle, roll_angle) ==
    /\ Abs(Abs(pitch_angle) - 90) <= extractor.angle_tolerance
    /\ Abs(roll_angle) <= extractor.angle_tolerance

Bowtie == <<(<<0, 0>>), (<<100, 100>>), (<<100, 0>>), (<<0, 1>>)>>

ConcurrentReadings ==
    {None, Some(extract_result(exif_angles(-60, 5)))}

ConcurrentCalls ==
    [op       : {"calculate_multiple_polygons"},
     polygons : {<< >>, <<Rect2000>>, <<Rect2000, Rect1500>>,
                 <<Rect1500, << >>, Rect4500>>},
     points   : {<< >>},
     size     : {None, Some(3)},
     reading  : ConcurrentReadings,
     pitch    : {0},
     roll     : {0}]
    \cup [op       : {"calculate_corrected_area"},
          polygons : {<< >>},
          points   : {Rect2000, Bowtie},
          size     : {Some(3)},
          reading  : ConcurrentReadings,
          pitch    : {0},
          roll     : {0}]
    \cup [op       : {"calculate_polygon_perimeter", "validate_polygon"},
          polygons : {<< >>},
          points   : {Rect2000, Bowtie},
          size     : {Some(3)},
          reading  : {None},
          pitch    : {0},
          roll     : {0}]
    \cup [op       : {"_calculate_correction_factor", "_is_perpendicular"},
          polygons : {<< >>},
          points   : {<< >>},
          size     : {None},
          reading  : {None},
          pitch    : {-90, -60},
          roll     : {0, 5}]

\* What the call returns when it runs alone.
Alone(call) ==
    CASE call.op = "calculate_multiple_polygons" ->
             calculate_multiple_polygons(call.polygons, call.size, call.size,
                                         call.reading)
      [] call.op = "calculate_corrected_area" ->
             calculate_corrected_area(call.points, call.size, call.size,
                                      call.reading)
      [] call.op = "calculate_polygon_perimeter" ->
             [perimeter |-> calculate_polygon_perimeter(call.points,
                                                        call.size, call.size)]
      [] call.op = "validate_polygon" -> validate_polygon(call.points)
      [] call.op = "_calculate_correction_factor" ->
             [factor |-> _calculate_correction_factor(call.pitch, call.roll)]
      [] call.op = "_is_perpendicular" ->
             [perpendicular |-> _is_perpendicular(call.pitch, call.roll)]

InitConcurrent ==
    /\ op = "concurrent_calls"
    /\ pc = "call"
    /\ image = NoImage
    /\ angle_data = None
    /\ polygon_points = << >>
    /\ pixel_size_x = None
    /\ pixel_size_y = None
    /\ area_result = NoResult
    /\ polygons_list = << >>
    /\ results = NoResult
    /\ returned = None
    /\ args = << >>
    /\ files = {}
    /\ image_data = None
    /\ \E calls \in [Threads -> ConcurrentCalls] :
           /\ threads = [t \in Threads |->
                            [call |-> calls[t], pc |-> "call", i |-> 0,
                             result |-> NoResult]]
           /\ shared = [objects |-> Objects, arguments |-> calls]
    /\ frames = [t \in Threads |-> NoResult]

\* The arguments of caller t, as they are now.
Arguments(t) == shared.arguments[t]

\* Entry of calculate_multiple_polygons: results is initialised.
Begin(t) ==
    /\ threads[t].pc = "call"
    /\ Arguments(t).op = "calculate_multiple_polygons"
    /\ frames' = [frames EXCEPT
                     ![frame_of(t)] = empty_results(Arguments(t).polygons)]
    /\ threads' = [threads EXCEPT ![t].pc = "loop", ![t].i = 1]
    /\ UNCHANGED shared

\* One iteration of the loop of calculate_multiple_polygons.
Iterate(t) ==
    /\ threads[t].pc = "loop"
    /\ threads[t].i <= Len(Arguments(t).polygons)
    /\ LET a  == Arguments(t)
           sx == IF IsNone(a.size) THEN Some(DefaultPixelSize) ELSE a.size
       IN  frames' = [frames EXCEPT
                         ![frame_of(t)] =
                             add_polygon(@, a.polygons[threads[t].i], sx, sx,
                                         a.reading)]
    /\ threads' = [threads EXCEPT ![t].i = @ + 1]
    /\ UNCHANGED shared

\* After the loop: the summary, and the return.
Finish(t) ==
    /\ threads[t].pc = "loop"
    /\ threads[t].i > Len(Arguments(t).polygons)
    /\ LET acc == frames[frame_of(t)]
       IN  threads' = [threads EXCEPT
                          ![t].pc = "return",
                          ![t].result =
                              [k \in ResultKeys
                                      \cup {"angle_correction_summary"} |->
                                  IF k = "angle_correction_summary"
                                  THEN correction_summary(acc)
                                  ELSE acc[k]]]
    /\ UNCHANGED <<frames, shared>>

\* A call of one of the other methods.
CallOnce(t) ==
    /\ threads[t].pc = "call"
    /\ Arguments(t).op # "calculate_multiple_polygons"
    /\ LET a == Arguments(t)
           extractor == shared.objects.extractor
           result ==
               CASE a.op = "calculate_corrected_area" ->
                        calculate_corrected_area(a.points, a.size, a.size,
                                                 a.reading)
                 [] a.op = "calculate_polygon_perimeter" ->
                        [perimeter |->
                            calculate_polygon_perimeter(a.points, a.size,
                                                        a.size)]
                 [] a.op = "validate_polygon" -> validate_polygon(a.points)
                 [] a.op = "_calculate_correction_factor" ->
                        [factor |->
                            _calculate_correction_factor(a.pitch, a.roll)]
                 [] a.op = "_is_perpendicular" ->
                        [perpendicular |->
                            is_perpendicular_of(extractor, a.pitch, a.roll)]
       IN  threads' = [threads EXCEPT ![t].pc = "return",
                                      ![t].result = result]
    /\ UNCHANGED <<frames, shared>>

NextConcurrent ==
    /\ op = "concurrent_calls"
    /\ \E t \in Threads : Begin(t) \/ Iterate(t) \/ Finish(t) \/ CallOnce(t)
    /\ UNCHANGED <<op, pc, image, angle_data, polygon_points, pixel_size_x,
                   pixel_size_y, area_result, polygons_list, results,
                   returned, args, files, image_data>>

SpecConcurrent == InitConcurrent /\ [][NextConcurrent]_vars

Init ==
    \/ InitConcurrent
    \/ InitService
    \/ InitMaterial
    \/ InitPerimeter
    \/ InitAngle
    \/ InitArea
    \/ InitAggregate
    \/ InitExtract
    \/ InitWarning
    \/ InitValidate

Next ==
    \/ NextConcurrent
    \/ NextService
    \/ NextMaterial
    \/ NextPerimeter
    \/ NextAngle
    \/ NextArea
    \/ NextAggregate
    \/ NextExtract
    \/ NextWarning
    \/ NextValidate

Spec == Init /\ [][Next]_vars

Extracted == op = "extract_angles_from_image" /\ pc = "return"

Reading == Value(angle_data)

AreaReturned == op = "calculate_polygon_area_pixels" /\ pc = "return"

Corrected == op = "calculate_corrected_area" /\ pc = "return"

Aggregated == op = "calculate_multiple_polygons" /\ pc = "return"


(***************************************************************************)
(* Units of the results.                                                   *)
(***************************************************************************)
\* One square metre, in half square pixels times squared fortieths of a metre.
SquareMetre == 2 * 40 * 40

\* One square pixel, in half square pixels.
SquarePixel == 2

InRange(f) == One <= f /\ f <= 3 * One

(***************************************************************************)
(* The correction model.                                                   *)
(***************************************************************************)
\* C1: for every pitch and roll in [-180, 180] the correction factor lies in
\* [1.0, 3.0], also where the cosine is zero, near zero or negative, and the
\* computation raises no error.
Thm_C1_FactorBounds ==
    Extracted => InRange(Reading.correction_factor)

\* C1 witness: pitch 0, roll 90: the cosine of the effective angle is below
\* resolution and the factor is clamped to 3.0.
Wit_C1_RightAngle ==
    /\ Extracted
    /\ image.pitch = 0
    /\ image.roll = 90
    /\ Cos(Radians(90)) = 0
    /\ Reading.correction_factor = 3 * One

Thm_C4_Perpendicular ==
    Extracted =>
        /\ Reading.is_perpendicular <=>
               (/\ 85 <= Abs(image.pitch)
                /\ Abs(image.pitch) <= 95
                /\ -5 <= image.roll
                /\ image.roll <= 5)
        /\ (image.pitch = -90 /\ image.roll = 0) => Reading.is_perpendicular
        /\ (image.pitch = -90 /\ image.roll = 10) => ~Reading.is_perpendicular

\* C4 witness: both bounds met with equality.
Wit_C4_InclusiveBounds ==
    /\ Extracted
    /\ image.pitch = 85
    /\ image.roll = -5
    /\ Reading.is_perpendicular

(***************************************************************************)
(* The area correction engine.                                             *)
(***************************************************************************)
GivenReading == Value(angle_data)

HasAngleData == Truthy(angle_data) /\ Get(GivenReading, "has_angle_data", FALSE)

FullReading ==
    /\ Truthy(angle_data)
    /\ {"has_angle_data", "is_perpendicular", "correction_factor"}
           \subseteq DOMAIN GivenReading

\* C3: Scenario B.  With the reading extracted for pitch -60, roll 5, the
\* factor is about 1.155 and the square at 0.1 m/px has a corrected area of
\* about 115.5 m2, with correction_applied true.
Cex_C3_ScenarioB ==
    (/\ Corrected
     /\ polygon_points = Square
     /\ pixel_size_x = Some(4)
     /\ pixel_size_y = Some(4)
     /\ angle_data = Some(extract_result(exif_angles(-60, 5))))
    => /\ Abs(area_result.correction_factor - 1155000) <= 1000
       /\ Abs(10 * area_result.corrected_area_m2 - 1155 * SquareMetre)
              <= SquareMetre
       /\ area_result.correction_applied

\* C5: whenever the reading has angle data, corrected_area_m2 is
\* apparent_area_m2 times the reading's factor whatever is_perpendicular
\* says, and correction_applied is the negation of is_perpendicular.
Thm_C5_UnconditionalMultiplication ==
    (Corrected /\ FullReading /\ GivenReading.has_angle_data) =>
        /\ area_result.correction_factor = GivenReading.correction_factor
        /\ area_result.corrected_area_m2 =
               MulFix(area_result.apparent_area_m2,
                      GivenReading.correction_factor)
        /\ area_result.correction_applied = ~GivenReading.is_perpendicular

\* C5 witness: a reading classified perpendicular with factor 1.155: the
\* square's area is multiplied and correction_applied is false.
Wit_C5_PerpendicularMultiplied ==
    /\ Corrected
    /\ FullReading
    /\ GivenReading.has_angle_data
    /\ GivenReading.is_perpendicular
    /\ GivenReading.correction_factor = 1155000
    /\ polygon_points = Square
    /\ area_result.corrected_area_m2 > area_result.apparent_area_m2
    /\ ~area_result.correction_applied

\* C6: when the reading is None or has no angle data, whatever factor and
\* classification it carries, corrected_area_m2 equals apparent_area_m2, the
\* reported factor is 1.0 and correction_applied is false.
Thm_C6_NoAngleData ==
    (Corrected /\ ~HasAngleData) =>
        /\ area_result.corrected_area_m2 = area_result.apparent_area_m2
        /\ area_result.correction_factor = One
        /\ ~area_result.correction_applied
        /\ area_result.area_difference_m2 = 0

\* C6 witness: a reading without angle data that carries factor 5.0 and is
\* not perpendicular leaves the square's 100 m2 as they are.
Wit_C6_FactorIgnored ==
    /\ Corrected
    /\ FullReading
    /\ ~GivenReading.has_angle_data
    /\ ~GivenReading.is_perpendicular
    /\ GivenReading.correction_factor = 5 * One
    /\ polygon_points = Square
    /\ pixel_size_x = Some(4)
    /\ pixel_size_y = Some(4)
    /\ area_result.corrected_area_m2 = 100 * SquareMetre

\* C7: a polygon of fewer than 3 points has pixel area 0, apparent and
\* corrected area 0, difference 0 and difference percent 0, with any scale
\* and any reading.
Thm_C7_FewerThanThreePoints ==
    /\ (AreaReturned /\ Len(polygon_points) < 3) => area_result.area = 0
    /\ (Corrected /\ Len(polygon_points) < 3) =>
           /\ area_result.pixel_area = 0
           /\ area_result.apparent_area_m2 = 0
           /\ area_result.corrected_area_m2 = 0
           /\ area_result.area_difference_m2 = 0
           /\ area_result.area_difference_percent = 0

\* C7 witness: two distinct points, a reading with angle data and factor 5.0.
Wit_C7_TwoPoints ==
    /\ Corrected
    /\ Len(polygon_points) = 2
    /\ polygon_points[1] # polygon_points[2]
    /\ FullReading
    /\ GivenReading.has_angle_data
    /\ GivenReading.correction_factor = 5 * One
    /\ area_result.corrected_area_m2 = 0
    /\ area_result.area_difference_percent = 0

\* The shoelace sum over the closed ring, point i with its successor.
RECURSIVE Shoelace(_, _)
Shoelace(points, i) ==
    IF i > Len(points) THEN 0
    ELSE LET a == points[i]
             b == points[(i % Len(points)) + 1]
         IN  a[1] * b[2] - b[1] * a[2] + Shoelace(points, i + 1)

Reversed(points) == [i \in 1..Len(points) |-> points[Len(points) + 1 - i]]

Rotated(points) == [i \in 1..Len(points) |-> points[(i % Len(points)) + 1]]

\* C8: for 3 or more points the pixel area is |1/2 * sum(x_i * y_i+1 -
\* x_i+1 * y_i)| over the closed ring: it is non-negative and unchanged when
\* the point order is reversed or cyclically rotated.
Thm_C8_Shoelace ==
    (AreaReturned /\ Len(polygon_points) >= 3) =>
        /\ area_result.area = Abs(Shoelace(polygon_points, 1))
        /\ area_result.area >= 0
        /\ area_result.area =
               calculate_polygon_area_pixels(Reversed(polygon_points))
        /\ area_result.area =
               calculate_polygon_area_pixels(Rotated(polygon_points))

\* C8 witness: a clockwise triangle (negative signed sum) of half a square
\* pixel.
Wit_C8_ClockwiseTriangle ==
    /\ AreaReturned
    /\ polygon_points = <<(<<0, 0>>), (<<0, 1>>), (<<1, 0>>)>>
    /\ Shoelace(polygon_points, 1) < 0
    /\ 2 * area_result.area = SquarePixel

\* C9: with both scales given, apparent_area_m2 is pixel_area * sx * sy, the
\* two scales applied independently; the square at 0.1 m/px has pixel area
\* 10000 and apparent area 100.0 m2.
Thm_C9_ScaleLinearity ==
    (Corrected /\ ~IsNone(pixel_size_x) /\ ~IsNone(pixel_size_y)) =>
        /\ area_result.pixel_area = Abs(Shoelace(polygon_points, 1))
        /\ area_result.apparent_area_m2 =
               area_result.pixel_area * Value(pixel_size_x)
                   * Value(pixel_size_y)
        /\ (/\ polygon_points = Square
            /\ pixel_size_x = Some(4)
            /\ pixel_size_y = Some(4))
           => /\ area_result.pixel_area = 10000 * SquarePixel
              /\ area_result.apparent_area_m2 = 100 * SquareMetre

\* C9 witness: the square at 0.1 m/px by 0.075 m/px: 10000 * 0.1 * 0.075 =
\* 75 m2.
Wit_C9_DistinctScales ==
    /\ Corrected
    /\ polygon_points = Square
    /\ pixel_size_x = Some(4)
    /\ pixel_size_y = Some(3)
    /\ area_result.apparent_area_m2 = 75 * SquareMetre

\* C10 as claimed: every result has correction_factor in [1.0, 3.0], for any
\* reading the caller passes in.
Cex_C10_AnyReading ==
    Corrected => InRange(area_result.correction_factor)

\* C10 amended: the result's correction_factor is in [1.0, 3.0] for every
\* reading that extract_angles_from_image produced, that has no angle data,
\* or whose own correction_factor lies in [1.0, 3.0].
Thm_C10_FactorInRange ==
    (/\ Corrected
     /\ \/ ~HasAngleData
        \/ GivenReading \in ExtractedReadings
        \/ InRange(Get(GivenReading, "correction_factor", One)))
    => InRange(area_result.correction_factor)

\* C10 witness: the reading extracted for pitch -75, roll 2, whose factor
\* the extractor clamped to 3.0.
Wit_C10_ExtractedClamped ==
    /\ Corrected
    /\ angle_data = Some(extract_result(exif_angles(-75, 2)))
    /\ area_result.correction_factor = 3 * One

(***************************************************************************)
(* The pixel scale.                                                        *)
(***************************************************************************)
\* The scales the engine computes with: 0.1 m/pixel for a missing x scale,
\* the x scale for a missing y scale.
EffectiveX == IF IsNone(pixel_size_x) THEN 4 ELSE Value(pixel_size_x)

EffectiveY == IF IsNone(pixel_size_y) THEN EffectiveX ELSE Value(pixel_size_y)

IsAreaResult(r) == "apparent_area_m2" \in DOMAIN r

\* C11: a zero or negative pixel scale is rejected (no AreaResult comes
\* back); no AreaResult has a negative apparent or corrected area, nor a
\* zero area for a polygon of positive pixel area.
Cex_C11_DegenerateScaleRejected ==
    Corrected =>
        /\ (EffectiveX <= 0 \/ EffectiveY <= 0) => ~IsAreaResult(area_result)
        /\ IsAreaResult(area_result) =>
               /\ area_result.apparent_area_m2 >= 0
               /\ area_result.corrected_area_m2 >= 0
               /\ area_result.pixel_area > 0
                      => area_result.apparent_area_m2 > 0

\* C12 as claimed: corrected_area performs no defaulting: a result comes back
\* only from the scale values it was given.
Cex_C12_NoDefaulting ==
    Corrected =>
        /\ ~IsNone(pixel_size_x)
        /\ ~IsNone(pixel_size_y)
        /\ area_result.apparent_area_m2 =
               area_result.pixel_area * Value(pixel_size_x)
                   * Value(pixel_size_y)

\* C12 amended: a scale that is given is used exactly as given; a missing x
\* scale is replaced by 0.1 m/pixel and a missing y scale by the x scale,
\* inside corrected_area.
Thm_C12_EngineDefaults ==
    Corrected =>
        area_result.apparent_area_m2 =
            area_result.pixel_area * EffectiveX * EffectiveY

\* C12 witness: x scale None, y scale 0.075: the square has 10000 * 0.1 *
\* 0.075 = 75 m2.
Wit_C12_DefaultedX ==
    /\ Corrected
    /\ polygon_points = Square
    /\ IsNone(pixel_size_x)
    /\ pixel_size_y = Some(3)
    /\ area_result.apparent_area_m2 = 75 * SquareMetre

\* C13: with a pixel size of None on both axes calculate_corrected_area and
\* calculate_multiple_polygons return what they return with 0.1 m/pixel on
\* both axes; a y size of None takes the value of the x size.
Thm_C13_NoneIsDefault ==
    /\ (Corrected /\ IsNone(pixel_size_x) /\ IsNone(pixel_size_y)) =>
           area_result = calculate_corrected_area(polygon_points, Some(4),
                                                  Some(4), angle_data)
    /\ (Corrected /\ ~IsNone(pixel_size_x) /\ IsNone(pixel_size_y)) =>
           area_result = calculate_corrected_area(polygon_points, pixel_size_x,
                                                  pixel_size_x, angle_data)
    /\ (Aggregated /\ IsNone(pixel_size_x) /\ IsNone(pixel_size_y)) =>
           results = calculate_multiple_polygons(polygons_list, Some(4),
                                                 Some(4), angle_data)
    /\ (Aggregated /\ ~IsNone(pixel_size_x) /\ IsNone(pixel_size_y)) =>
           results = calculate_multiple_polygons(polygons_list, pixel_size_x,
                                                 pixel_size_x, angle_data)

\* C13 witness: the three rectangles with x size 0.075 and y size None: 8000
\* * 0.075 * 0.075 = 45 m2.
Wit_C13_MissingY ==
    /\ Aggregated
    /\ polygons_list = ScenarioC
    /\ pixel_size_x = Some(3)
    /\ IsNone(pixel_size_y)
    /\ results.total_apparent_area_m2 = 45 * SquareMetre

(***************************************************************************)
(* The aggregation engine.                                                 *)
(***************************************************************************)
RECURSIVE SumSeq(_, _)
SumSeq(seq, i) == IF i > Len(seq) THEN 0 ELSE seq[i] + SumSeq(seq, i + 1)

Summary == results.angle_correction_summary

\* C14: polygon_count is the number of input polygons, degenerate ones
\* included; there is one AreaResult per polygon in input order; the totals
\* are the plain sums of the per-polygon apparent areas, corrected areas and
\* perimeters, and are 0 for the empty list.
Thm_C14_PlainSums ==
    Aggregated =>
        LET n == Len(polygons_list)
        IN  /\ results.polygon_count = n
            /\ Len(results.individual_corrections) = n
            /\ Len(results.individual_areas_m2) = n
            /\ Len(results.individual_corrected_areas_m2) = n
            /\ Len(results.individual_perimeters_m) = n
            /\ \A i \in 1..n :
                   /\ results.individual_corrections[i] =
                          calculate_corrected_area(polygons_list[i],
                              pixel_size_x, pixel_size_y, angle_data)
                   /\ results.individual_areas_m2[i] =
                          results.individual_corrections[i].apparent_area_m2
                   /\ results.individual_corrected_areas_m2[i] =
                          results.individual_corrections[i].corrected_area_m2
                   /\ results.individual_perimeters_m[i] =
                          calculate_polygon_perimeter(polygons_list[i],
                              pixel_size_x, pixel_size_y)
            /\ results.total_apparent_area_m2 =
                   SumSeq(results.individual_areas_m2, 1)
            /\ results.total_corrected_area_m2 =
                   SumSeq(results.individual_corrected_areas_m2, 1)
            /\ results.total_perimeter_m =
                   SumSeq(results.individual_perimeters_m, 1)
            /\ n = 0 => /\ results.total_apparent_area_m2 = 0
                        /\ results.total_corrected_area_m2 = 0
                        /\ results.total_perimeter_m = 0

\* C14 witness: three polygons, the second one empty: it is counted and the
\* totals are those of the other two, (1500 + 2000) * 0.1 * 0.1 = 35 m2.
Wit_C14_DegenerateCounted ==
    /\ Aggregated
    /\ polygons_list = <<Rect1500, << >>, Rect2000>>
    /\ pixel_size_x = Some(4)
    /\ pixel_size_y = Some(4)
    /\ results.polygon_count = 3
    /\ results.total_apparent_area_m2 = 35 * SquareMetre

\* C15: total_area_difference_m2 is total_corrected - total_apparent and
\* total_area_difference_percent is (total_corrected / total_apparent - 1) *
\* 100 (0 when total_apparent is not positive), for every input, also when
\* no polygon is flagged as corrected.
Cex_C15_DifferenceFromTotals ==
    Aggregated =>
        /\ Summary.total_area_difference_m2 =
               results.total_corrected_area_m2 - results.total_apparent_area_m2
        /\ Summary.total_area_difference_percent =
               IF results.total_apparent_area_m2 > 0
               THEN (DivFix(results.total_corrected_area_m2,
                            results.total_apparent_area_m2) - One) * 100
               ELSE 0

AppliedResults ==
    {i \in 1..Len(results.individual_corrections) :
        results.individual_corrections[i].correction_applied}

RECURSIVE SumFactors(_)
SumFactors(S) ==
    IF S = {} THEN 0
    ELSE LET i == CHOOSE j \in S : TRUE
         IN  results.individual_corrections[i].correction_factor
             + SumFactors(S \ {i})

\* C16: the summary's correction_applied is true iff some per-polygon result
\* has correction_applied; average_correction_factor is the sum of the
\* factors of those results over their count, or 1.0 when there is none.
\* Scenario C (areas 2000, 4500, 1500 at 0.075 m/px, factor 1.035 applied):
\* total_apparent is 8000 * 0.075^2 = 45 m2, total_corrected is
\* total_apparent * 1.035 and the average is 1.035.
Thm_C16_AverageOverApplied ==
    Aggregated =>
        /\ Summary.correction_applied <=> AppliedResults # {}
        /\ Summary.average_correction_factor =
               IF AppliedResults = {} THEN One
               ELSE SumFactors(AppliedResults) \div Cardinality(AppliedResults)
        /\ (/\ polygons_list = ScenarioC
            /\ pixel_size_x = Some(3)
            /\ pixel_size_y = Some(3)
            /\ HasAngleData
            /\ ~GivenReading.is_perpendicular
            /\ GivenReading.correction_factor = 1035000)
           => /\ results.total_apparent_area_m2 = 45 * SquareMetre
              /\ results.total_corrected_area_m2 =
                     MulFix(results.total_apparent_area_m2, 1035000)
              /\ Summary.average_correction_factor = 1035000

\* C16 witness: Scenario C.
Wit_C16_ScenarioC ==
    /\ Aggregated
    /\ polygons_list = ScenarioC
    /\ pixel_size_x = Some(3)
    /\ pixel_size_y = Some(3)
    /\ HasAngleData
    /\ ~GivenReading.is_perpendicular
    /\ GivenReading.correction_factor = 1035000
    /\ Summary.correction_applied
    /\ Summary.average_correction_factor = 1035000
    /\ 1000 * results.total_corrected_area_m2 = 46575 * SquareMetre

(***************************************************************************)
(* Extraction from an image's metadata.                                    *)
(***************************************************************************)
Present(f) == image.opens /\ f \in DOMAIN image.exif

Unparseable(f) == Present(f) /\ image.exif[f].kind = "text"

AnyAngleTag ==
    \E f \in {"CameraPitch", "CameraRoll", "GimbalPitchDegree",
              "GimbalRollDegree", "FlightPitchDegree", "FlightRollDegree"} :
        Present(f)

ParseFailure ==
    \/ ~image.opens
    \/ \E f \in {"CameraPitch", "CameraRoll", "GimbalPitchDegree",
                 "GimbalRollDegree", "FlightPitchDegree", "FlightRollDegree"} :
           Unparseable(f)

\* Some angle tag is among the tags of a picture that PIL opens.
AnyTagIn(picture) ==
    /\ picture.opens
    /\ DOMAIN picture.exif \cap
           {"CameraPitch", "CameraRoll", "GimbalPitchDegree",
            "GimbalRollDegree", "FlightPitchDegree", "FlightRollDegree"} # {}

\* The tag step succeeded: some angle tag is present and none fails to parse.
TagsParsed == AnyAngleTag /\ ~ParseFailure

\* What the georeference fallback yields on a coordinate-reference system.
Georeferenced ==
    /\ Reading.has_angle_data
    /\ Reading.pitch_angle = 0
    /\ Reading.roll_angle = 0
    /\ Reading.image_type = "orthorectified"
    /\ Reading.angle_source = Some("geotiff")

\* C17 as claimed: if any known angle tag is present the reading comes from
\* the tags, with or without a coordinate-reference system; the georeference
\* fallback is tried only when no angle tag is present, and on a
\* coordinate-reference system it yields the georeferenced reading.
Cex_C17_AnyTagWins ==
    Extracted =>
        /\ AnyAngleTag => Reading.angle_source = Some("exif")
        /\ Reading.angle_source = Some("geotiff") => ~AnyAngleTag
        /\ (~AnyAngleTag /\ image.raster = "crs") => Georeferenced

\* C17 amended: the reading comes from the tags (source exif), with or without
\* a coordinate-reference system, iff an angle tag is present and every angle
\* tag present parses; otherwise the georeference fallback makes the reading,
\* and on a coordinate-reference system it yields has_angle_data = true,
\* pitch = roll = 0, image_type = orthorectified, source = geotiff.
Thm_C17_FirstSuccessWins ==
    Extracted =>
        /\ TagsParsed => /\ Reading.angle_source = Some("exif")
                         /\ Reading.has_angle_data
                         /\ Reading.image_type \in {"drone", "dji_drone"}
        /\ ~TagsParsed => Reading.angle_source = Some("geotiff")
        /\ (~TagsParsed /\ image.raster = "crs") => Georeferenced

\* C17 witness: an image with a parsed angle tag and a coordinate-reference
\* system: the tags win.
Wit_C17_TagsBeforeCrs ==
    /\ Extracted
    /\ TagsParsed
    /\ image.raster = "crs"
    /\ Reading.angle_source = Some("exif")
    /\ Reading.pitch_angle = -60

\* C18: with no known angle tag and no coordinate-reference system the
\* reading has has_angle_data = false, pitch = roll = 0, image_type = unknown,
\* source = none, correction_factor = 1.0 and is_perpendicular = true.
Cex_C18_UnknownImage ==
    (Extracted /\ ~AnyAngleTag /\ image.raster # "crs") =>
        /\ ~Reading.has_angle_data
        /\ Reading.pitch_angle = 0
        /\ Reading.roll_angle = 0
        /\ Reading.image_type = "unknown"
        /\ IsNone(Reading.angle_source)
        /\ Reading.correction_factor = One
        /\ Reading.is_perpendicular

\* The value of an axis: that of the last alias present in the declared
\* order, 0 when none is.
Resolved(camera, gimbal, flight) ==
    IF Present(flight) THEN image.exif[flight].value
    ELSE IF Present(gimbal) THEN image.exif[gimbal].value
    ELSE IF Present(camera) THEN image.exif[camera].value
    ELSE 0

\* C19: in the tag step the last alias present in the declared order gives
\* the axis its value: FlightPitchDegree before GimbalPitchDegree before
\* CameraPitch, and likewise for roll; the axes are resolved independently,
\* an axis without alias is 0, and one alias on either axis suffices for
\* has_angle_data = true.
Thm_C19_LastAliasWins ==
    (Extracted /\ TagsParsed) =>
        /\ Reading.has_angle_data
        /\ Reading.pitch_angle =
               Resolved("CameraPitch", "GimbalPitchDegree",
                        "FlightPitchDegree")
        /\ Reading.roll_angle =
               Resolved("CameraRoll", "GimbalRollDegree", "FlightRollDegree")

\* C19 witness: the three pitch aliases with three values and no roll alias:
\* pitch is FlightPitchDegree's, roll is 0.
Wit_C19_ThreePitchAliases ==
    /\ Extracted
    /\ Present("CameraPitch") /\ image.exif["CameraPitch"] = Number(-90)
    /\ Present("GimbalPitchDegree")
    /\ image.exif["GimbalPitchDegree"] = Number(-60)
    /\ Present("FlightPitchDegree")
    /\ image.exif["FlightPitchDegree"] = NumericText(5)
    /\ ~Present("CameraRoll")
    /\ ~Present("GimbalRollDegree")
    /\ ~Present("FlightRollDegree")
    /\ Reading.has_angle_data
    /\ Reading.pitch_angle = 5
    /\ Reading.roll_angle = 0

\* C20 as claimed: a parse failure never raises and degrades to
\* has_angle_data = false, pitch = roll = 0, correction_factor = 1.0,
\* is_perpendicular = true.
Cex_C20_DegradesToNoData ==
    (Extracted /\ ParseFailure) =>
        /\ ~Reading.has_angle_data
        /\ Reading.pitch_angle = 0
        /\ Reading.roll_angle = 0
        /\ Reading.correction_factor = One
        /\ Reading.is_perpendicular

\* C20 amended: a parse failure never raises and degrades to the reading of
\* the georeference fallback: pitch = roll = 0 and correction_factor = 1.0
\* (no partially parsed angle survives); without a coordinate-reference
\* system has_angle_data = false and is_perpendicular = true, with one
\* has_angle_data = true and is_perpendicular = false.
Thm_C20_DegradesToFallback ==
    (Extracted /\ ParseFailure) =>
        /\ Reading.pitch_angle = 0
        /\ Reading.roll_angle = 0
        /\ Reading.correction_factor = One
        /\ Reading.angle_source = Some("geotiff")
        /\ image.raster # "crs" => /\ ~Reading.has_angle_data
                                   /\ Reading.is_perpendicular
        /\ image.raster = "crs" => /\ Reading.has_angle_data
                                   /\ ~Reading.is_perpendicular

\* C20 witness: CameraPitch parsed as -60, then CameraRoll fails to parse, on
\* an image without coordinate-reference system.
Wit_C20_PartiallyParsed ==
    /\ Extracted
    /\ Present("CameraPitch") /\ image.exif["CameraPitch"] = Number(-60)
    /\ Unparseable("CameraRoll")
    /\ image.raster = "no_crs"
    /\ ~Reading.has_angle_data
    /\ Reading.pitch_angle = 0

\* C21: every reading returned by extract_angles_from_image has, when
\* has_angle_data, the correction factor and the perpendicular flag of its
\* own pitch and roll, and otherwise factor 1.0 and is_perpendicular = true;
\* so its factor lies in [1.0, 3.0].
Thm_C21_ReadingConsistent ==
    Extracted =>
        /\ Reading.has_angle_data =>
               /\ Reading.correction_factor =
                      _calculate_correction_factor(Reading.pitch_angle,
                                                   Reading.roll_angle)
               /\ Reading.is_perpendicular =
                      _is_perpendicular(Reading.pitch_angle,
                                        Reading.roll_angle)
        /\ ~Reading.has_angle_data => /\ Reading.correction_factor = One
                                      /\ Reading.is_perpendicular
        /\ One <= Reading.correction_factor
        /\ Reading.correction_factor <= 3 * One

\* C21 witness: tags that resolve to pitch -60, roll 5: the factor is that of
\* (-60, 5), above 2, and the capture is not perpendicular.
Wit_C21_AngledReading ==
    /\ Extracted
    /\ image.opens
    /\ Reading.has_angle_data
    /\ Reading.pitch_angle = -60
    /\ Reading.roll_angle = 5
    /\ Reading.correction_factor > 2 * One
    /\ ~Reading.is_perpendicular

(***************************************************************************)
(* The warning.                                                            *)
(***************************************************************************)
Warned == op = "get_angle_warning" /\ pc = "return"

\* What the call returned: None, or Some(text).
Warning == Value(returned)

HighWarning ==
    Some("High angle correction applied - consider using perpendicular imagery for maximum accuracy")

ModerateWarning ==
    Some("Moderate angle correction applied - accuracy reduced compared to perpendicular imagery")

\* C22: get_angle_warning is None for every reading without angle data or
\* classified perpendicular, whatever its factor; for a reading with angle
\* data that is not perpendicular it is the high-correction message when the
\* factor is above 1.5, the moderate message when it is above 1.2 and at most
\* 1.5, and None otherwise.
Thm_C22_WarningLevels ==
    Warned =>
        LET factor == GivenReading.correction_factor
        IN  IF ~GivenReading.has_angle_data \/ GivenReading.is_perpendicular
            THEN Warning = None
            ELSE /\ factor > 1500000 => Warning = HighWarning
                 /\ (1200000 < factor /\ factor <= 1500000)
                        => Warning = ModerateWarning
                 /\ factor <= 1200000 => Warning = None

\* C22 witness: a perpendicular reading with factor 3.0 gets no warning.
Wit_C22_PerpendicularSilent ==
    /\ Warned
    /\ GivenReading.has_angle_data
    /\ GivenReading.is_perpendicular
    /\ GivenReading.correction_factor = 3 * One
    /\ Warning = None

(***************************************************************************)
(* Validation.                                                             *)
(***************************************************************************)
Validated == op = "validate_polygon" /\ pc = "return"

Validation == Value(returned)

TooFewPoints == Some("Polygon must have at least 3 points")

NoArea == Some("Polygon has no area")

SelfIntersecting == Some("Polygon is self-intersecting")

\* C23: validate_polygon checks in order (1) at least 3 points, (2) pixel
\* area > 0, (3) the ring is simple, and returns at the first failing check
\* with an error message; is_valid holds iff the three checks pass, iff there
\* is no error message, and implies has_minimum_points, has_area and not
\* is_self_intersecting; point_count is the number of input points.
Thm_C23_ChecksInOrder ==
    Validated =>
        LET n      == Len(polygon_points)
            area   == Abs(Shoelace(polygon_points, 1))
            simple == is_valid(polygon_points)
            v      == Validation
        IN  /\ v.point_count = n
            /\ n < 3 => /\ v.error_message = TooFewPoints
                        /\ ~v.has_minimum_points
                        /\ ~v.has_area
                        /\ ~v.is_self_intersecting
            /\ (n >= 3 /\ area = 0) => /\ v.error_message = NoArea
                                       /\ v.has_minimum_points
                                       /\ ~v.has_area
                                       /\ ~v.is_self_intersecting
            /\ (n >= 3 /\ area > 0 /\ ~simple) =>
                   /\ v.error_message = SelfIntersecting
                   /\ v.has_minimum_points
                   /\ v.has_area
                   /\ v.is_self_intersecting
            /\ v.is_valid <=> (n >= 3 /\ area > 0 /\ simple)
            /\ v.is_valid <=> IsNone(v.error_message)
            /\ v.is_valid => /\ v.has_minimum_points
                             /\ v.has_area
                             /\ ~v.is_self_intersecting

\* C23 witness: a ring that crosses itself and has net area 0 stops at the
\* second check.
Wit_C23_StopsAtArea ==
    /\ Validated
    /\ polygon_points =
           <<(<<0, 0>>), (<<100, 100>>), (<<100, 0>>), (<<0, 100>>)>>
    /\ Validation.error_message = NoArea
    /\ ~Validation.is_self_intersecting

\* Two edges of the closed ring that are not neighbours cross in a point
\* interior to both.
CrossesItself(points) ==
    LET n == Len(points)
        next(i) == (i % n) + 1
    IN  \E i, j \in 1..n :
            /\ i < j
            /\ Turn(points[i], points[next(i)], points[j])
                   * Turn(points[i], points[next(i)], points[next(j)]) = -1
            /\ Turn(points[j], points[next(j)], points[i])
                   * Turn(points[j], points[next(j)], points[next(i)]) = -1

\* C24: fewer than 3 points are reported as too few points; 3 or more points
\* on a simple ring with no area as having no area; and every ring of 3 or
\* more points that crosses itself with is_self_intersecting = true and the
\* self-intersection message.
Cex_C24_KindsToldApart ==
    Validated =>
        /\ Len(polygon_points) < 3 => Validation.error_message = TooFewPoints
        /\ (Len(polygon_points) >= 3 /\ CrossesItself(polygon_points)) =>
               /\ Validation.is_self_intersecting
               /\ Validation.error_message = SelfIntersecting
        /\ (/\ Len(polygon_points) >= 3
            /\ ~CrossesItself(polygon_points)
            /\ Shoelace(polygon_points, 1) = 0)
               => Validation.error_message = NoArea

(***************************************************************************)
(* The perimeter.                                                          *)
(***************************************************************************)
Measured == op = "calculate_polygon_perimeter" /\ pc = "return"

Perimeter == Value(returned)

\* The sum, over the edges that start at the points of S, of
\* sqrt((dx * scale_x)^2 + (dy * scale_y)^2); the edge of the last point ends
\* at the first.
RECURSIVE RingLength(_, _)
RingLength(points, S) ==
    IF S = {} THEN 0
    ELSE LET i  == CHOOSE k \in S : TRUE
             a  == points[i]
             b  == points[IF i = Len(points) THEN 1 ELSE i + 1]
             dx == (b[1] - a[1]) * EffectiveX
             dy == (b[2] - a[2]) * EffectiveY
         IN  Sqrt(dx * dx + dy * dy) + RingLength(points, S \ {i})

\* C25: the perimeter is 0.0 for fewer than 3 points, also for 2 distinct
\* points; otherwise it is the sum over all n edges, the wraparound edge
\* included, of sqrt((dx * scale_x)^2 + (dy * scale_y)^2), and is unchanged
\* when the point order is reversed or cyclically rotated.
Thm_C25_ClosedRing ==
    Measured =>
        /\ Len(polygon_points) < 3 => Perimeter = 0
        /\ Len(polygon_points) >= 3 =>
               /\ Perimeter = RingLength(polygon_points,
                                         1..Len(polygon_points))
               /\ Perimeter = calculate_polygon_perimeter(
                                  Reversed(polygon_points), pixel_size_x,
                                  pixel_size_y)
               /\ Perimeter = calculate_polygon_perimeter(
                                  Rotated(polygon_points), pixel_size_x,
                                  pixel_size_y)

\* C25 witness: the 30-40-50 triangle at 0.1 m/pixel: 3 + 5 + 4 = 12 m, the
\* last 4 m being the wraparound edge.
Wit_C25_Triangle ==
    /\ Measured
    /\ polygon_points = <<(<<0, 0>>), (<<30, 0>>), (<<0, 40>>)>>
    /\ pixel_size_x = Some(4)
    /\ pixel_size_y = Some(4)
    /\ Perimeter = 12 * 40 * 1000

(***************************************************************************)
(* Perpendicular captures.                                                 *)
(***************************************************************************)
\* C27: whenever the reading of (pitch, roll) is perpendicular, that is for
\* 85 <= |pitch| <= 95 and |roll| <= 5, its correction factor is at most
\* 1 / cos(5 degrees), about 1.004.
Cex_C27_PerpendicularFactorSmall ==
    (/\ Extracted
     /\ 85 <= Abs(Reading.pitch_angle) /\ Abs(Reading.pitch_angle) <= 95
     /\ Abs(Reading.roll_angle) <= 5)
        => /\ Reading.is_perpendicular
           /\ Reading.correction_factor <= 1004000

\* C28: a reading produced by the georeference fallback causes no
\* correction to be made or reported: its factor is 1.0, corrected_area_m2 is
\* apparent_area_m2 and correction_applied is false in every per-polygon
\* result, and the summary's correction_applied is false.
Cex_C28_GeoreferencedUncorrected ==
    angle_data = Some(GeoreferencedReading) =>
        /\ GeoreferencedReading.correction_factor = One
        /\ Corrected =>
               /\ area_result.corrected_area_m2 = area_result.apparent_area_m2
               /\ ~area_result.correction_applied
        /\ Aggregated =>
               /\ results.total_corrected_area_m2 =
                      results.total_apparent_area_m2
               /\ \A i \in 1..Len(results.individual_corrections) :
                      ~results.individual_corrections[i].correction_applied
               /\ ~Summary.correction_applied

(***************************************************************************)
(* Material quantities.                                                    *)
(***************************************************************************)
Quantified == op = "calculate_material_quantity" /\ pc = "return"

Quantity == Value(returned)

\* C30: for a known material and is_volume = false, volume_m3 is area_m2 *
\* max(t, minimum_thickness_m), t being custom_thickness if given and the
\* profile thickness otherwise; effective_volume_m3 is volume_m3 *
\* waste_factor; thickness_used_m is the thickness the volume was computed
\* with; an unknown material returns an error value.
Cex_C30_MinimumThickness ==
    Quantified =>
        IF args.material_key \in DOMAIN material_profiles
        THEN ~args.is_volume =>
                 LET profile == material_profiles[args.material_key]
                     t    == IF IsNone(args.custom_thickness)
                             THEN profile.thickness_m
                             ELSE Value(args.custom_thickness)
                     used == Max(t, profile.minimum_thickness_m)
                 IN  /\ Quantity.volume_m3 = args.area_m2 * used
                     /\ Quantity.effective_volume_m3 =
                            MulFix(Quantity.volume_m3, profile.waste_factor)
                     /\ Quantity.thickness_used_m = used
        ELSE DOMAIN Quantity = {"error"}

(***************************************************************************)
(* The image service.                                                      *)
(***************************************************************************)
AngleInfoExtracted == op = "calc_custom_area" /\ pc = "extracted"

\* C29: when extract_and_display_angle_info opens image_data['file_path']
\* after load_image, the file still exists, for TIFF images as for standard
\* images; so a georeferenced TIFF yields an orthorectified reading with
\* has_angle_data = true.
Cex_C29_FileStillExists ==
    AngleInfoExtracted =>
        /\ Value(image_data).file_path \in DOMAIN files
        /\ (/\ image_filetype(args.picture_id) \in {"TIFF", "TIF"}
            /\ image.raster = "crs"
            /\ ~AnyTagIn(image))
               => /\ Reading.has_angle_data
                  /\ Reading.image_type = "orthorectified"

(***************************************************************************)
(* Concurrent callers.                                                     *)
(***************************************************************************)
Returned(t) == op = "concurrent_calls" /\ threads[t].pc = "return"

\* C26: under every interleaving of two concurrent calls on one shared
\* AreaCalculator and one shared AngleExtractor, each call returns what it
\* returns when run alone on the same inputs, two calls with identical
\* inputs return identical outputs, and the two objects and the arguments
\* are as they were before the calls.
Thm_C26_Stateless ==
    op = "concurrent_calls" =>
        /\ \A t \in Threads :
               Returned(t) => threads[t].result = Alone(threads[t].call)
        /\ \A t, u \in Threads :
               (Returned(t) /\ Returned(u)
                    /\ threads[t].call = threads[u].call)
                   => threads[t].result = threads[u].result
        /\ shared.objects = Objects
        /\ \A t \in Threads : shared.arguments[t] = threads[t].call

\* C26 witness: caller 1 has returned the aggregate of three polygons while
\* caller 2 is inside its own loop over two polygons.
Wit_C26_Interleaved ==
    /\ Returned(1)
    /\ threads[1].call.op = "calculate_multiple_polygons"
    /\ Len(threads[1].call.polygons) = 3
    /\ threads[1].result.polygon_count = 3
    /\ threads[2].call.op = "calculate_multiple_polygons"
    /\ threads[2].pc = "loop"
    /\ threads[2].i = 2
    /\ Len(frames[2].individual_corrections) = 1

=============================================================================
